---- MODULE Spec2Model ----
(***************************************************************************)
(* Embed resolution and proxying engine of Atto4.                          *)
(*                                                                         *)
(* Text (URLs, HTML bodies) is a sequence of atoms: each atom is a short   *)
(* run of characters ("https://", "vidsrc", ".", "/", a quote, ...).       *)
(* Concatenation of texts is \o, so prefix / suffix / search on texts are  *)
(* computed atom by atom, the way the code computes them on characters.    *)
(***************************************************************************)
EXTENDS Integers, Sequences, FiniteSets, TLC

VARIABLES
    \* --- Host Allowlist Gate, called on one URL ---
    gateUrl, gateDone, gateResult,
    \* --- rewriteAbsoluteUrlsToProxy, called on one HTML body ---
    htmlIn, htmlDone, htmlOut,
    \* --- one request through the GET / POST dispatchers to the proxy ---
    pxMethod, pxPath, pxQueryTarget, pxBodyTarget,   \* the request
    pxPc,          \* "idle", "fetch" (awaiting fetch), "sleep" (awaiting backoff), "done"
    pxRoute,       \* the handler the dispatcher chose
    pxTarget,      \* the target handleProxyGET read
    pxAttempt,     \* attempt of fetchWithTimeoutAndRetry
    pxFetched,     \* the URLs fetch was called with, in order
    pxSleeps,      \* the backoffs slept, in order
    pxErrors,      \* the messages of the errors fetch threw, in order
    pxOutcome,     \* how fetchWithTimeoutAndRetry ended: "", "response", "thrown"
    pxUpstream,    \* the response it returned: "", "html", "binary", "non2xx"
    pxUpstreamStatus,   \* its status, 0 when there is none
    pxUpstreamHeaders,  \* the names of its headers, as the upstream spells them
    pxBodyRead,    \* upstream.text() / arrayBuffer(): "", "ok", "threw"
    pxResponse,    \* the answer
    \* --- one POST resolution request (handleCheckEmbedPOST, handleCheckEmbedGET) ---
    rqMethod,      \* "GET": the fields are query parameters; "POST": JSON body
    rqBody, rqMediaType, rqTmdbId, rqSeason, rqEpisode, rqTestUrls,   \* the request
    slPc,          \* "start", "direct", "proxy" (awaiting that fetchTest), "done"
    slArgs,        \* the arguments buildAllEmbedCandidates was called with
    slCandidates, slIdx, slDirect, slAllResults, slPrimary,
    slProbes,      \* the URLs fetchTest was called with, in order
    slOutcomes,    \* what the fetch of each of these calls did, in order
    slResponse,
    \* --- buildEmbedUrl, called on a template provider and on a base provider ---
    emMediaType, emTmdbId, emSeason, emEpisode,      \* the arguments
    emTemplate, emBase,                              \* the two provider values
    emExtra,       \* EXTRA_PARAMS
    emDone, emTemplateUrl, emBaseUrl,                \* the two results
    \* --- one proxied probe, served by the proxy of the same file ---
    pbUrl,         \* the original URL of the candidate
    pbResult,      \* what fetchTest(proxyAbsolute) returned, None while it runs
    \* --- the caller of the request being served ---
    callerGone,    \* the caller was cancelled: the signal of the request is aborted
    \* --- the VideoPlayer component ---
    plMediaType, plProviders,                        \* props and configuration
    embedUrl, sources, workingSources, currentSourceIndex,
    loading, error, isTesting, checkResults,         \* React state
    mounted, cancelled,                              \* the effect and its cleanup flag
    loadPc, loadI,                                   \* position of loadSources
    errPc, errStart, errI,                           \* position of handleIframeError
    closed,        \* handleClose was called
    rendered,      \* the URLs the iframe showed, in order
    failed,        \* the URLs whose iframe reported an error
    errProbes,     \* testSource calls issued by handleIframeError
    \* --- a loadSources call superseded by a change of the props ---
    supPc, supI,   \* its position, "none" while no load was superseded
    supWrites      \* the state it has set since it was superseded

gateVars == <<gateUrl, gateDone, gateResult>>
htmlVars == <<htmlIn, htmlDone, htmlOut>>
proxyVars == <<pxMethod, pxPath, pxQueryTarget, pxBodyTarget, pxPc, pxRoute, pxTarget,
               pxAttempt, pxFetched, pxSleeps, pxErrors, pxOutcome, pxUpstream, pxUpstreamStatus,
               pxUpstreamHeaders, pxBodyRead,
               pxResponse>>
requestVars == <<rqMethod, rqBody, rqMediaType, rqTmdbId, rqSeason, rqEpisode, rqTestUrls>>
selectVars == <<requestVars, slPc, slArgs, slOutcomes, slCandidates, slIdx, slDirect, slAllResults, slPrimary,
                slProbes, slResponse>>
playerState == <<embedUrl, sources, workingSources, currentSourceIndex,
                 loading, error, isTesting, checkResults>>
playerVars == <<plMediaType, plProviders, playerState, mounted, cancelled, loadPc, loadI,
                errPc, errStart, errI, closed, rendered, failed, errProbes>>
callerVars == <<callerGone>>
embedVars == <<emMediaType, emTmdbId, emSeason, emEpisode, emTemplate, emBase, emExtra,
               emDone, emTemplateUrl, emBaseUrl>>
probeVars == <<pbUrl, pbResult>>
reloadVars == <<supPc, supI, supWrites>>
vars == <<gateVars, htmlVars, proxyVars, selectVars, playerVars, callerVars, embedVars,
          probeVars, reloadVars>>

----------------------------------------------------------------------------
(* Text helpers *)

\* JavaScript null / undefined for a text value.
Null == <<"<null>">>

\* !x for a text: null and the empty string are falsy.
Falsy(s) == s = Null \/ s = <<>>

\* String.prototype.startsWith / endsWith
StartsWith(s, p) == Len(s) >= Len(p) /\ SubSeq(s, 1, Len(p)) = p
EndsWith(s, p) == Len(s) >= Len(p) /\ SubSeq(s, Len(s) - Len(p) + 1, Len(s)) = p

\* s.slice(i) with a 1-based first index
Drop(s, n) == SubSeq(s, n + 1, Len(s))

\* Index of the first atom of s that is in set S, 0 when there is none.
FirstIn(s, S) ==
    IF \E i \in 1..Len(s) : s[i] \in S
    THEN CHOOSE i \in 1..Len(s) : s[i] \in S /\ \A j \in 1..(i - 1) : s[j] \notin S
    ELSE 0

\* Index of the last atom of s that is in set S, 0 when there is none.
LastIn(s, S) ==
    IF \E i \in 1..Len(s) : s[i] \in S
    THEN CHOOSE i \in 1..Len(s) : s[i] \in S /\ \A j \in (i + 1)..Len(s) : s[j] \notin S
    ELSE 0

\* String.prototype.toLowerCase, atom by atom.
LowerAtom(a) ==
    CASE a = "WWW" -> "www"
      [] a = "VIDSRC" -> "vidsrc"
      [] a = "TO" -> "to"
      [] a = "EVIL" -> "evil"
      [] a = "HTTPS://" -> "https://"
      [] OTHER -> a

ToLowerCase(s) == [i \in DOMAIN s |-> LowerAtom(s[i])]

----------------------------------------------------------------------------
(* Host Allowlist Gate *)

ALLOWED_HOSTS == <<
    <<"vidlink", ".", "pro">>,
    <<"vidsrc", ".", "to">>,
    <<"vidsrc", ".", "stream">>,
    <<"2embed", ".", "cc">>,
    <<"embedsb", ".", "com">>,
    <<"doodstream", ".", "com">>,
    <<"streamtape", ".", "com">>,
    <<"111movies", ".", "com">>,
    <<"player", ".", "111movies", ".", "com">>,
    <<"embed", ".", "111movies", ".", "com">> >>

\* Atoms that open an absolute http(s) URL (the scheme is case-insensitive).
SchemeAtoms == {"https://", "http://", "HTTPS://"}

\* Atoms that end the authority of a URL.
AuthorityEnd == {"/", "?", "#"}

\* Atoms that may not occur in a host (forbidden host code points, or a
\* percent-escape): the URL does not parse.
ForbiddenInHost == {" ", "%2F", "%20", "%40", "%22", "%60", "https%3A%2F%2F", "http%3A%2F%2F"}

\* Leading and trailing spaces are stripped before a URL is parsed.
RECURSIVE TrimSpaces(_)
TrimSpaces(s) ==
    IF s = <<>> THEN s
    ELSE IF Head(s) = " " THEN TrimSpaces(Tail(s))
    ELSE IF s[Len(s)] = " " THEN TrimSpaces(SubSeq(s, 1, Len(s) - 1))
    ELSE s

\* For http and https the parser skips every slash that follows "scheme://".
RECURSIVE SkipSlashes(_)
SkipSlashes(s) == IF s # <<>> /\ Head(s) = "/" THEN SkipSlashes(Tail(s)) ELSE s

\* A scheme atom met inside the authority: its letters belong to the host,
\* its ":" opens an empty port and its "/" ends the authority.
SchemeWord(a) == IF a = "http://" THEN "http" ELSE "https"

\* new URL(u).hostname for an absolute http(s) URL: the text between the
\* scheme and the first "/", "?" or "#", after the last "@", lower-cased.
\* Null stands for the TypeError new URL throws.
URLHostname(u) ==
    LET t == TrimSpaces(u) IN
    IF t = <<>> \/ Head(t) \notin SchemeAtoms THEN Null
    ELSE
        LET rest == SkipSlashes(Tail(t))
            e == FirstIn(rest, AuthorityEnd \cup SchemeAtoms)
            authority == IF e = 0 THEN rest
                         ELSE IF rest[e] \in SchemeAtoms
                              THEN Append(SubSeq(rest, 1, e - 1), SchemeWord(rest[e]))
                              ELSE SubSeq(rest, 1, e - 1)
            at == LastIn(authority, {"@"})
            host == Drop(authority, at)
        IN  IF host = <<>> \/ (\E i \in 1..Len(host) : host[i] \in ForbiddenInHost)
            THEN Null
            ELSE ToLowerCase(host)

\* host.replace(/^www\./, "")
StripWww(h) == IF StartsWith(h, <<"www", ".">>) THEN Drop(h, 2) ELSE h

getHostname(u) ==
    IF Falsy(u) THEN Null
    ELSE LET h == URLHostname(u) IN
         IF h = Null THEN Null ELSE ToLowerCase(StripWww(h))

\* hostAllowedHost with includes() in place of the equality and suffix tests
hostAllowedHost_Includes(host) ==
    IF Falsy(host) THEN FALSE
    ELSE \E k \in DOMAIN ALLOWED_HOSTS :
            \E i \in 0..Len(host) : StartsWith(Drop(host, i), ALLOWED_HOSTS[k])

hostAllowedHost(host) ==
    IF Falsy(host) THEN FALSE
    ELSE \E k \in DOMAIN ALLOWED_HOSTS :
            host = ALLOWED_HOSTS[k] \/ EndsWith(host, <<".">> \o ALLOWED_HOSTS[k])

hostAllowedUrl(u) == hostAllowedHost(getHostname(u))

----------------------------------------------------------------------------
(* rewriteAbsoluteUrlsToProxy *)

\* The three quote characters, as atoms: double quote, apostrophe, backtick.
DQ == "<dq>"
SQ == "<sq>"
BQ == "<bq>"
Quotes == {DQ, SQ, BQ}

\* (src|href)= , case-insensitive
AttrAtoms == {"src=", "href=", "SRC="}

ProxyPrefix == "/api/proxy?target="

\* encodeURIComponent, atom by atom: letters, digits, the apostrophe and
\* - _ . ! ~ * ( ) are kept, every other character is percent-escaped.
EncAtom(a) ==
    CASE a = "https://" -> "https%3A%2F%2F"
      [] a = "http://" -> "http%3A%2F%2F"
      [] a = "HTTPS://" -> "HTTPS%3A%2F%2F"
      [] a = "/" -> "%2F"
      [] a = " " -> "%20"
      [] a = "@" -> "%40"
      [] a = "?" -> "%3F"
      [] a = "#" -> "%23"
      [] a = "&" -> "%26"
      [] a = DQ -> "%22"
      [] a = BQ -> "%60"
      [] a = "tmdb=" -> "tmdb%3D"
      [] a = "&season=" -> "%26season%3D"
      [] a = "&episode=" -> "%26episode%3D"
      [] a = "primaryColor=3a86ff&autoplay=true&nextbutton=true"
           -> "primaryColor%3D3a86ff%26autoplay%3Dtrue%26nextbutton%3Dtrue"
      [] a = "src=" -> "src%3D"
      [] a = "href=" -> "href%3D"
      [] a = "SRC=" -> "SRC%3D"
      [] OTHER -> a

encodeURIComponent(s) == [i \in DOMAIN s |-> EncAtom(s[i])]

\* Length of the match of the first regex at the head of s, 0 when it does
\* not match there: src= or href=, then a double-quoted or an apostrophe-quoted
\* http(s):// text of at least one more character, up to the next quote of
\* the same kind.
Match1(s) ==
    IF Len(s) >= 5 /\ s[1] \in AttrAtoms /\ s[2] \in {DQ, SQ} /\ s[3] \in SchemeAtoms
    THEN LET c == FirstIn(Drop(s, 3), {s[2]}) IN
         IF c >= 2 THEN 3 + c ELSE 0
    ELSE 0

\* The replacement callback of the first pass, on the matched text m.
Replace1(m) ==
    LET attr == m[1]
        quotedUrl == Drop(m, 1)
        url == SubSeq(quotedUrl, 2, Len(quotedUrl) - 1)
        host == getHostname(url)
    IN  IF Falsy(host) THEN <<attr>> \o quotedUrl
        ELSE IF hostAllowedHost(host)
             THEN <<attr, DQ, ProxyPrefix>> \o encodeURIComponent(url) \o <<DQ>>
             ELSE <<attr>> \o quotedUrl

\* Length of the match of the second regex at the head of s, 0 when it does
\* not match there: any quote, http(s):// and at least one more character
\* that is neither a quote nor a space, then any quote.
Match2(s) ==
    IF Len(s) >= 4 /\ s[1] \in Quotes /\ s[2] \in SchemeAtoms
    THEN LET c == FirstIn(Drop(s, 2), Quotes \cup {" "}) IN
         IF c >= 2 /\ s[2 + c] \in Quotes THEN 2 + c ELSE 0
    ELSE 0

\* The replacement callback of the second pass, on the matched text m.
Replace2(m) ==
    LET quote == m[1]
        candidate == SubSeq(m, 2, Len(m) - 1)
        host == getHostname(candidate)
    IN  IF ~Falsy(host) /\ hostAllowedHost(host)
        THEN <<quote, ProxyPrefix>> \o encodeURIComponent(candidate) \o <<quote>>
        ELSE m

\* String.prototype.replace with a global regex: leftmost match, replace,
\* resume after the match.
RECURSIVE Pass1(_)
Pass1(s) ==
    IF s = <<>> THEN <<>>
    ELSE LET n == Match1(s) IN
         IF n = 0 THEN <<Head(s)>> \o Pass1(Tail(s))
         ELSE Replace1(SubSeq(s, 1, n)) \o Pass1(Drop(s, n))

RECURSIVE Pass2(_)
Pass2(s) ==
    IF s = <<>> THEN <<>>
    ELSE LET n == Match2(s) IN
         IF n = 0 THEN <<Head(s)>> \o Pass2(Tail(s))
         ELSE Replace2(SubSeq(s, 1, n)) \o Pass2(Drop(s, n))

rewriteAbsoluteUrlsToProxy(htmlText) == Pass2(Pass1(htmlText))

----------------------------------------------------------------------------
(* Inputs of the rewriter: HTML bodies built from a few fragments *)

MaxFrags == 5

HtmlFrags == {
    <<"src=", DQ>>,
    <<"src=", SQ>>,
    <<DQ>>,
    <<SQ>>,
    <<" ">>,
    <<"https://", "vidsrc", ".", "to">>,
    <<"https://", "evil", ".", "com">>,
    <<"/", "a">>,
    <<".", "evil", ".", "com">> }

RECURSIVE HtmlBodies(_)
HtmlBodies(n) ==
    IF n = 0 THEN {<<>>}
    ELSE {f \o b : f \in HtmlFrags \cup {<<>>}, b \in HtmlBodies(n - 1)}

----------------------------------------------------------------------------
(* Optional values: <<>> is null / undefined, <<x>> is the value x *)

None == <<>>
Some(x) == <<x>>

----------------------------------------------------------------------------
(* JavaScript numbers of a request, as their decimal text *)

\* Number(raw): a numeric text is its own value, anything else is NaN.
Number(raw) == IF raw \in {"undefined", "abc"} THEN "NaN" ELSE raw

\* Number.isFinite(x)
IsFinite(x) == x \notin {"NaN", "undefined"}

\* x <= 0 (false for NaN)
NonPositive(x) == x \in {"0", "-1"}

\* the truthiness of x in (season && episode)
Truthy(x) == x \notin {"0", "NaN", "undefined"}

----------------------------------------------------------------------------
(* Candidate Generator: buildAllEmbedCandidates *)

PlayerParams == "primaryColor=3a86ff&autoplay=true&nextbutton=true"

make(provider, url, type) ==
    [provider |-> provider,
     originalUrl |-> url,
     proxyCandidate |-> <<ProxyPrefix>> \o encodeURIComponent(url),
     type |-> type]

\* buildAllEmbedCandidates with both fallback branches taken whatever the
\* media type
buildAllEmbedCandidates_BothFallbacks(mediaType, tmdbId, season, episode) ==
    LET vidlinkTv == <<"https://", "vidlink", ".", "pro", "/", "tv", "/", tmdbId, "/",
                       season, "/", episode, "?", PlayerParams>>
        vidsrcMovie == <<"https://", "vidsrc", ".", "to", "/", "embed", "/", "movie", "/", tmdbId>>
        native ==
            IF mediaType = "movie"
            THEN << make("VidLink", <<"https://", "vidlink", ".", "pro", "/", "movie", "/",
                                      tmdbId, "?", PlayerParams>>, "movie"),
                    make("VidSrc", vidsrcMovie, "movie"),
                    make("2Embed", <<"https://", "2embed", ".", "cc", "/", "embed", "/",
                                     "movie", "?", "tmdb=", tmdbId>>, "movie") >>
            ELSE << make("VidLink", vidlinkTv, "tv"),
                    make("VidSrc", <<"https://", "vidsrc", ".", "to", "/", "embed", "/", "tv",
                                     "/", tmdbId, "/", season, "/", episode>>, "tv"),
                    make("2Embed", <<"https://", "2embed", ".", "cc", "/", "embed", "/", "tv",
                                     "?", "tmdb=", tmdbId, "&season=", season,
                                     "&episode=", episode>>, "tv") >>
        withTv == IF Truthy(season) /\ Truthy(episode)
                  THEN Append(native, make("VidLink-Fallback", vidlinkTv, "tv-fallback"))
                  ELSE native
    IN  Append(withTv, make("VidSrc-Fallback", vidsrcMovie, "movie-fallback"))

buildAllEmbedCandidates(mediaType, tmdbId, season, episode) ==
    LET vidlinkTv == <<"https://", "vidlink", ".", "pro", "/", "tv", "/", tmdbId, "/",
                       season, "/", episode, "?", PlayerParams>>
        vidsrcMovie == <<"https://", "vidsrc", ".", "to", "/", "embed", "/", "movie", "/", tmdbId>>
        native ==
            IF mediaType = "movie"
            THEN << make("VidLink", <<"https://", "vidlink", ".", "pro", "/", "movie", "/",
                                      tmdbId, "?", PlayerParams>>, "movie"),
                    make("VidSrc", vidsrcMovie, "movie"),
                    make("2Embed", <<"https://", "2embed", ".", "cc", "/", "embed", "/",
                                     "movie", "?", "tmdb=", tmdbId>>, "movie") >>
            ELSE << make("VidLink", vidlinkTv, "tv"),
                    make("VidSrc", <<"https://", "vidsrc", ".", "to", "/", "embed", "/", "tv",
                                     "/", tmdbId, "/", season, "/", episode>>, "tv"),
                    make("2Embed", <<"https://", "2embed", ".", "cc", "/", "embed", "/", "tv",
                                     "?", "tmdb=", tmdbId, "&season=", season,
                                     "&episode=", episode>>, "tv") >>
    IN  IF mediaType = "movie" /\ Truthy(season) /\ Truthy(episode)
        THEN Append(native, make("VidLink-Fallback", vidlinkTv, "tv-fallback"))
        ELSE IF mediaType = "tv"
             THEN Append(native, make("VidSrc-Fallback", vidsrcMovie, "movie-fallback"))
             ELSE native

----------------------------------------------------------------------------
(* Prober: fetchTest *)

\* What one fetchTest call can return: a 2xx response, a non-2xx response, or
\* a network error / timeout caught inside fetchTest.
ProbeOk == [ok |-> TRUE, kind |-> "ok"]
ProbeHttpError == [ok |-> FALSE, kind |-> "http"]
ProbeNetError == [ok |-> FALSE, kind |-> "error"]
ProbeOutcomes == {ProbeOk, ProbeHttpError, ProbeNetError}

\* What the fetch inside fetchTest does: it resolves with a 2xx response, it
\* resolves with another response, or it rejects (network error, or the abort
\* of the timeout).
FetchOutcomes == {"2xx", "non2xx", "throws"}

\* An exception that leaves an awaited call and reaches the catch of the handler
Thrown == [ok |-> FALSE, kind |-> "thrown"]

\* fetchTest without its catch: a rejected fetch throws into the handler
fetchTest_Rethrows(outcome) ==
    IF outcome = "2xx" THEN ProbeOk
    ELSE IF outcome = "non2xx" THEN ProbeHttpError
    ELSE Thrown

\* fetchTest: the result object it returns for each outcome of its fetch
fetchTest(outcome) ==
    IF outcome = "2xx" THEN ProbeOk
    ELSE IF outcome = "non2xx" THEN ProbeHttpError
    ELSE ProbeNetError

----------------------------------------------------------------------------
(* Selection Engine: the body of the loop of handleCheckEmbedPOST *)

\* The origin of the incoming request, against which a proxy path is resolved.
SelfOrigin == <<"https://", "self">>

\* proxyPath.startsWith("http") ? proxyPath : new URL(proxyPath, req.url).href
proxyAbsoluteOf(candidate) ==
    IF Head(candidate.proxyCandidate) \in SchemeAtoms
    THEN candidate.proxyCandidate
    ELSE SelfOrigin \o candidate.proxyCandidate

\* NeedsProxyProbe without the test of the direct result
NeedsProxyProbe_AllowlistOnly(candidate, directResult) ==
    hostAllowedUrl(candidate.originalUrl)

\* The proxied probe is made: the else branch of if (directResult.ok), under
\* if (hostAllowedUrl(candidate.originalUrl))
NeedsProxyProbe(candidate, directResult) ==
    ~directResult.ok /\ hostAllowedUrl(candidate.originalUrl)

\* The result object pushed to allResults for one tested candidate.
TestedResult(candidate, directResult, proxyResult) ==
    [provider |-> candidate.provider,
     type |-> candidate.type,
     originalUrl |-> candidate.originalUrl,
     proxyCandidate |-> candidate.proxyCandidate,
     directResult |-> Some(directResult),
     proxyResult |-> proxyResult,
     proxied |-> IF directResult.ok THEN candidate.originalUrl
                 ELSE IF hostAllowedUrl(candidate.originalUrl)
                      THEN proxyAbsoluteOf(candidate)
                      ELSE Null,
     usedProxy |-> /\ ~directResult.ok
                   /\ hostAllowedUrl(candidate.originalUrl)
                   /\ proxyResult # None /\ proxyResult[1].ok,
     tested |-> TRUE]

\* The result object r of handleCheckEmbedGET for one tested candidate:
\* proxied is chosen, the original URL unless the proxied probe succeeded.
\* (proxyCandidate is carried along for AllUrlsEntry to drop; r has no such
\* field.)
GetTestedResult(c, directResult, proxyResult) ==
    LET usedProxy == /\ ~directResult.ok
                     /\ hostAllowedUrl(c.originalUrl)
                     /\ proxyResult # None /\ proxyResult[1].ok
    IN  [provider |-> c.provider,
         type |-> c.type,
         originalUrl |-> c.originalUrl,
         proxyCandidate |-> c.proxyCandidate,
         directResult |-> Some(directResult),
         proxyResult |-> proxyResult,
         proxied |-> IF usedProxy THEN proxyAbsoluteOf(c) ELSE c.originalUrl,
         usedProxy |-> usedProxy,
         tested |-> TRUE]

\* The result object pushed when testing is disabled.
UntestedResult(c) ==
    [provider |-> c.provider,
     type |-> c.type,
     originalUrl |-> c.originalUrl,
     proxyCandidate |-> c.proxyCandidate,
     directResult |-> None,
     proxyResult |-> None,
     proxied |-> c.originalUrl,
     usedProxy |-> FALSE,
     tested |-> FALSE]

\* ResultOk that reads the direct probe only
ResultOk_DirectOnly(r) == r.directResult # None /\ r.directResult[1].ok

\* (r.directResult && r.directResult.ok) || (r.proxyResult && r.proxyResult.ok)
ResultOk(r) ==
    \/ r.directResult # None /\ r.directResult[1].ok
    \/ r.proxyResult # None /\ r.proxyResult[1].ok

\* PrimaryOf that always names the original URL and the direct route
PrimaryOf_AlwaysDirect(result) ==
    [provider |-> result.provider,
     url |-> result.originalUrl,
     originalUrl |-> result.originalUrl,
     type |-> result.type,
     usedProxy |-> FALSE]

\* primary = { provider, url: proxied, originalUrl, type, usedProxy }
PrimaryOf(result) ==
    [provider |-> result.provider,
     url |-> result.proxied,
     originalUrl |-> result.originalUrl,
     type |-> result.type,
     usedProxy |-> result.usedProxy]

\* SelectPrimary without the !primary guard: a later reachable candidate
\* replaces an earlier one
SelectPrimary_LastWins(primary, result) ==
    IF ResultOk(result) THEN Some(PrimaryOf(result)) ELSE primary

\* SelectPrimary without the ok test: the first candidate is taken as it is
SelectPrimary_Always(primary, result) ==
    IF primary = None THEN Some(PrimaryOf(result)) ELSE primary

\* if (!primary && (directResult.ok || (proxyResult && proxyResult.ok))) primary = ...
SelectPrimary(primary, result) ==
    IF primary = None /\ ResultOk(result) THEN Some(PrimaryOf(result)) ELSE primary

\* UntestedPrimary that takes the last candidate
UntestedPrimary_Last(candidates) ==
    IF candidates = <<>> THEN None
    ELSE LET c == candidates[Len(candidates)] IN
         Some([provider |-> c.provider,
               url |-> c.originalUrl,
               originalUrl |-> c.originalUrl,
               type |-> c.type,
               usedProxy |-> FALSE])

\* primary when testing is disabled: the first candidate, direct
UntestedPrimary(candidates) ==
    IF candidates = <<>> THEN None
    ELSE Some([provider |-> candidates[1].provider,
               url |-> candidates[1].originalUrl,
               originalUrl |-> candidates[1].originalUrl,
               type |-> candidates[1].type,
               usedProxy |-> FALSE])

\* One entry of allUrls in the response
AllUrlsEntry(r) ==
    [provider |-> r.provider,
     type |-> r.type,
     originalUrl |-> r.originalUrl,
     proxied |-> r.proxied,
     usedProxy |-> r.usedProxy,
     tested |-> r.tested,
     direct |-> r.directResult,
     proxy |-> r.proxyResult]

\* The JSON body of a successful check-embed POST response
CheckEmbedBody(candidates, primary, allResults) ==
    [success |-> TRUE,
     workingUrl |-> primary,
     totalTested |-> Len(candidates),
     workingCount |-> Cardinality({i \in DOMAIN allResults : ResultOk(allResults[i])}),
     allUrls |-> [i \in DOMAIN allResults |-> AllUrlsEntry(allResults[i])]]

\* TestedCount that tests every candidate in both handlers
TestedCount_All(method, candidates) == Len(candidates)

\* The candidates the loop of a handler tests: all of them in
\* handleCheckEmbedPOST, the first Math.min(3, candidates.length) in
\* handleCheckEmbedGET
TestedCount(method, candidates) ==
    IF method = "GET" /\ Len(candidates) > 3 THEN 3 ELSE Len(candidates)

\* The JSON body of a successful check-embed GET response: results.slice(0, 5)
CheckEmbedGetBody(primary, results) ==
    [success |-> TRUE,
     workingUrl |-> primary,
     allUrls |-> [i \in 1..(IF Len(results) > 5 THEN 5 ELSE Len(results)) |->
                     AllUrlsEntry(results[i])]]

\* A response of the resolution endpoint: its HTTP status and, for 200, its body
JsonResponse(status, body) == [status |-> status, body |-> body]

----------------------------------------------------------------------------
(* Reverse Proxy: handleProxyGET and fetchWithTimeoutAndRetry *)

ProxyRetries == 2
BackoffBaseMs == 300

RECURSIVE Pow2(_)
Pow2(n) == IF n = 0 THEN 1 ELSE 2 * Pow2(n - 1)

\* Backoff with 2 * attempt in place of 2 ** attempt
Backoff_Product(attempt) == BackoffBaseMs * (2 * attempt)

\* const backoff = 300 * (2 ** attempt)
Backoff(attempt) == BackoffBaseMs * Pow2(attempt)

\* The messages of the errors fetch can throw, and the test
\* /ECONNRESET|ETIMEDOUT|EAI_AGAIN|ENOTFOUND|network|timeout|aborted|Failed to fetch/i
\* on each of them.
FetchErrors == {"This operation was aborted", "connect ETIMEDOUT", "getaddrinfo ENOTFOUND",
                "read ECONNRESET", "connect ECONNREFUSED", "fetch failed",
                "unable to verify the first certificate"}

\* IsTransient that takes every error for a transient one
IsTransient_Every(msg) == msg \in FetchErrors

\* The messages one of the alternatives of the regex occurs in
IsTransient(msg) ==
    msg \in {"This operation was aborted", "connect ETIMEDOUT", "getaddrinfo ENOTFOUND",
             "read ECONNRESET"}

\* ProxyPrecheck without the hostAllowedHost test
ProxyPrecheck_NoAllowlist(target) ==
    IF Falsy(target) THEN 400
    ELSE IF Falsy(getHostname(target)) THEN 400
    ELSE 0

\* The checks of handleProxyGET before any fetch: the status it answers with,
\* or 0 when the target passes and the fetch starts.
ProxyPrecheck(target) ==
    IF Falsy(target) THEN 400
    ELSE IF Falsy(getHostname(target)) THEN 400
    ELSE IF ~hostAllowedHost(getHostname(target)) THEN 403
    ELSE 0

\* What the upstream answers to one fetch: a 2xx html page, another 2xx
\* resource, or a non-2xx response.
UpstreamResponses == {"html", "binary", "non2xx"}

\* The statuses an upstream answers with: ok is status 200..299
UpstreamStatusesOf(resp) == IF resp = "non2xx" THEN {404} ELSE {200, 206}

\* The names of the headers an upstream sends, in its own spelling
UpstreamHeaderNames ==
    {"Content-Security-Policy", "x-frame-options", "SET-COOKIE", "Transfer-Encoding",
     "connection", "Content-Type", "Cache-Control"}

\* The header sets of one upstream response
UpstreamHeaderSets ==
    {{}, {"Content-Type"}, {"SET-COOKIE", "Cache-Control"}, UpstreamHeaderNames}

\* k.toLowerCase(); the Headers class iterates over lower-cased names
LowerHeader(name) ==
    CASE name = "Content-Security-Policy" -> "content-security-policy"
      [] name = "SET-COOKIE" -> "set-cookie"
      [] name = "Transfer-Encoding" -> "transfer-encoding"
      [] name = "Content-Type" -> "content-type"
      [] name = "Cache-Control" -> "cache-control"
      [] OTHER -> name

\* The names the forEach of handleProxyGET skips
StrippedHeaders ==
    {"content-security-policy", "x-frame-options", "set-cookie", "transfer-encoding",
     "connection"}

\* ForwardedHeaders with set-cookie missing from the list of skipped names
ForwardedHeaders_KeepsCookies(sent) ==
    ({LowerHeader(n) : n \in sent} \ (StrippedHeaders \ {"set-cookie"}))
        \cup {"content-type", "x-proxy-by"}

\* forwardedHeaders of a non-html answer: the upstream headers that are not
\* skipped, content-type, and x-proxy-by
ForwardedHeaders(sent) ==
    ({LowerHeader(n) : n \in sent} \ StrippedHeaders) \cup {"content-type", "x-proxy-by"}

\* A JSON error answer of the proxy
ProxyError(status) ==
    [status |-> status, marker |-> FALSE, kind |-> "json", headers |-> {"content-type"}]

\* ProxyAnswer without the upstream.ok test: a non-2xx response is relayed
ProxyAnswer_RelaysNon2xx(resp, status, sent, bodyFails) ==
    IF bodyFails THEN ProxyError(500)
    ELSE [status |-> status, marker |-> TRUE, kind |-> resp,
          headers |-> ForwardedHeaders(sent)]

\* handleProxyGET after fetchWithTimeoutAndRetry returned resp with the given
\* status and headers: 502 for a response that is not ok, 500 when reading
\* the body threw (bodyFails), else the status of the upstream with the
\* headers of the html or of the forwarded answer.
ProxyAnswer(resp, status, sent, bodyFails) ==
    IF resp = "non2xx" THEN ProxyError(502)
    ELSE IF bodyFails THEN ProxyError(500)
    ELSE [status |-> status, marker |-> TRUE, kind |-> resp,
          headers |-> IF resp = "html" THEN {"content-type", "x-proxy-by"}
                      ELSE ForwardedHeaders(sent)]

\* The route a request takes in the GET / POST dispatchers.
\* pathname.endsWith("/api/proxy") || pathname.endsWith("/proxy"), ...
Dispatch(method, pathname, queryTarget) ==
    IF pathname = "/api/proxy" THEN "proxy"
    ELSE IF pathname = "/api/check-embed" THEN "check-embed"
    ELSE IF method = "GET" /\ ~Falsy(queryTarget) THEN "proxy"
    ELSE "check-embed"

\* The target handleProxyGET reads: for GET the query parameter; for POST
\* body?.target || query parameter, written back into the query string.
ProxyTarget(method, queryTarget, bodyTarget) ==
    IF method = "POST" /\ ~Falsy(bodyTarget) THEN bodyTarget ELSE queryTarget

\* The atoms that application/x-www-form-urlencoded writes differently
FormAtoms == {"https://", "http://", "HTTPS://", "/", " ", "@", "?", "#", "&", DQ, BQ, SQ}

\* url.searchParams.set(name, value): the value as written into the query
FormEncAtom(a) ==
    IF a = " " THEN "+" ELSE IF a = SQ THEN "%27" ELSE EncAtom(a)

FormEncode(s) == [i \in DOMAIN s |-> FormEncAtom(s[i])]

\* url.searchParams.get(name): the value as read back from the query
FormDecAtom(a) ==
    IF \E b \in FormAtoms : FormEncAtom(b) = a
    THEN CHOOSE b \in FormAtoms : FormEncAtom(b) = a
    ELSE a

FormDecode(s) == [i \in DOMAIN s |-> FormDecAtom(s[i])]

\* The atoms a query string writes percent-escaped
QueryAtoms == FormAtoms \cup {"tmdb=", "&season=", "&episode=", PlayerParams}

\* url.searchParams.get(name) on a value written by encodeURIComponent
QueryDecAtom(a) ==
    IF a = "+" THEN " "
    ELSE IF \E b \in QueryAtoms : EncAtom(b) = a
    THEN CHOOSE b \in QueryAtoms : EncAtom(b) = a
    ELSE a

searchParamsGet(value) == [i \in DOMAIN value |-> QueryDecAtom(value[i])]

\* ProbeOutcomeOf that takes every answer for a success
ProbeOutcomeOf_AnyAnswer(response) ==
    IF response.status # 0 THEN "2xx" ELSE "non2xx"

\* What the fetch of a proxied probe resolves with when the proxy answered:
\* res.ok is true for the statuses 200..299
ProbeOutcomeOf(response) ==
    IF response.status \in 200..299 THEN "2xx" ELSE "non2xx"

\* No answer yet
NoResponse == [status |-> 0, marker |-> FALSE, kind |-> "none", headers |-> {}]
NoJson == [status |-> 0, body |-> None]
----------------------------------------------------------------------------
(* lib/api/video-api.ts: buildEmbedUrl *)

Placeholders == {"${id}", "${type}", "${season}", "${episode}"}

\* if (mediaType === "movie") ...; if (season && episode) ...; return `/tv/${tmdbId}`
buildEmbedPath(mediaType, tmdbId, season, episode) ==
    IF mediaType = "movie" THEN <<"/", "movie", "/", tmdbId>>
    ELSE IF Truthy(season) /\ Truthy(episode)
         THEN <<"/", "tv", "/", tmdbId, "/", season, "/", episode>>
         ELSE <<"/", "tv", "/", tmdbId>>

\* /\$\{(id|type|season|episode)\}/.test(url)
isTemplate(url) == \E i \in DOMAIN url : url[i] \in Placeholders

\* url.endsWith("/") ? url.slice(0, -1) : url
normalizeBase(url) ==
    IF url # <<>> /\ url[Len(url)] = "/" THEN SubSeq(url, 1, Len(url) - 1) ELSE url

\* url + (url.includes("?") ? "&" : "?") + params
appendParams(url, params) ==
    IF params = <<>> THEN url
    ELSE url \o <<IF \E i \in DOMAIN url : url[i] = "?" THEN "&" ELSE "?">> \o params

\* The four replace calls of the template mode, on one atom
Substitute(a, mediaType, tmdbId, season, episode) ==
    IF a = "${id}" THEN tmdbId
    ELSE IF a = "${type}" THEN mediaType
    ELSE IF a = "${season}" THEN (IF Truthy(season) THEN season ELSE "1")
    ELSE IF a = "${episode}" THEN (IF Truthy(episode) THEN episode ELSE "1")
    ELSE a

buildRawUrl(providerValue, mediaType, tmdbId, season, episode) ==
    IF isTemplate(providerValue)
    THEN [i \in DOMAIN providerValue |->
             Substitute(providerValue[i], mediaType, tmdbId, season, episode)]
    ELSE normalizeBase(providerValue) \o buildEmbedPath(mediaType, tmdbId, season, episode)

\* extra stands for the module constant EXTRA_PARAMS
buildEmbedUrl(providerValue, mediaType, tmdbId, season, episode, extra) ==
    appendParams(buildRawUrl(providerValue, mediaType, tmdbId, season, episode), extra)

----------------------------------------------------------------------------
(* VideoPlayer: the client failover controller *)

\* error === null, and the messages setError is called with
NoError == ""
AllFailed == "All video sources failed to load"
NoSources == "No video sources available"

\* VIDEO_PROVIDERS: the configured providers, in priority order. The first two
\* have default values, so they are always configured.
ProviderNames == <<"Primary", "Secondary", "Tertiary", "Backup", "Base">>

\* videoApi.getMovieSources / getTVSources with n configured providers: one
\* source per provider, each with its own URL
getSources(n) ==
    [k \in 1..n |-> [url |-> <<"https://", "source", ".", ProviderNames[k]>>,
                     servers |-> ProviderNames[k]]]

\* (u.direct && u.direct.ok) || (u.proxy && u.proxy.ok)
EntryOk(u) ==
    \/ u.direct # None /\ u.direct[1].ok
    \/ u.proxy # None /\ u.proxy[1].ok

\* next.proxied || next.originalUrl
UrlOf(entry) == IF ~Falsy(entry.proxied) THEN entry.proxied ELSE entry.originalUrl

\* data.success && data.workingUrl && data.workingUrl.url
HasWorkingUrl(data) ==
    data.success /\ data.workingUrl # None /\ ~Falsy(data.workingUrl[1].url)

\* The workingSources list built when the server chose a workingUrl: the
\* entries whose direct or proxied probe succeeded, with the chosen entry put
\* in front when the filter dropped it.
WorkingList(data) ==
    LET all == data.allUrls
        chosen == data.workingUrl[1]
        working == SelectSeq(all, EntryOk)
        Matches(u) == \/ u.proxied = chosen.url
                      \/ u.originalUrl = chosen.originalUrl
                      \/ u.provider = chosen.provider
        found == SelectSeq(all, Matches)
    IN  IF \E i \in DOMAIN working : working[i].proxied = chosen.url
        THEN working
        ELSE IF found # <<>> THEN <<found[1]>> \o working ELSE working

\* workingSources.findIndex((_, idx) => idx > currentSourceIndex && workingSources[idx])
NextIndex(ws, cur) == IF cur + 1 < Len(ws) THEN cur + 1 ELSE -1

\* WrapIndex that looks only at the entries after the current one
WrapIndex_LaterOnly(ws, cur) ==
    LET S == {i \in (cur + 1)..(Len(ws) - 1) : EntryOk(ws[i + 1])} IN
    IF S = {} THEN -1 ELSE CHOOSE i \in S : \A j \in S : i <= j

\* The wrap-around loop: the first index other than the current one whose
\* entry the server flagged ok, -1 when there is none
WrapIndex(ws, cur) ==
    LET S == {i \in 0..(Len(ws) - 1) : i # cur /\ EntryOk(ws[i + 1])} IN
    IF S = {} THEN -1 ELSE CHOOSE i \in S : \A j \in S : i <= j

\* How the probes of one candidate went at the server: the direct probe
\* succeeded, only the proxied probe succeeded, or both failed
Outcomes == {"direct", "proxy", "fail"}

OutcomeResult(candidate, o) ==
    TestedResult(candidate,
                 IF o = "direct" THEN ProbeOk ELSE ProbeHttpError,
                 IF o = "direct" THEN None
                 ELSE Some(IF o = "proxy" THEN ProbeOk ELSE ProbeHttpError))

RECURSIVE FoldPrimary(_, _)
FoldPrimary(results, n) ==
    IF n = 0 THEN None ELSE SelectPrimary(FoldPrimary(results, n - 1), results[n])

\* The body handleCheckEmbedPOST answers the player's request with, when the
\* probes went as outs says. The player posts season || 1 and episode || 1;
\* the handler reads them only for tv.
ServerBody(mediaType, outs) ==
    LET cands == IF mediaType = "movie"
                 THEN buildAllEmbedCandidates("movie", "550", "undefined", "undefined")
                 ELSE buildAllEmbedCandidates("tv", "550", "1", "1")
        results == [i \in DOMAIN cands |-> OutcomeResult(cands[i], outs[i])]
    IN  CheckEmbedBody(cands, FoldPrimary(results, Len(results)), results)

ServerBodies(mediaType) ==
    LET n == IF mediaType = "movie" THEN 3 ELSE 4 IN
    {ServerBody(mediaType, outs) : outs \in [1..n -> Outcomes]}

----------------------------------------------------------------------------
(* Inputs of the gate *)

MaxHostAtoms == 5

HostAlphabet == {"www", ".", "vidsrc", "to", "evil"}

\* The texts of exactly n atoms of A, and those of at most n atoms.
RECURSIVE TextsOfLen(_, _)
TextsOfLen(A, n) ==
    IF n = 0 THEN {<<>>} ELSE {<<a>> \o s : a \in A, s \in TextsOfLen(A, n - 1)}

TextsUpTo(A, n) == UNION {TextsOfLen(A, k) : k \in 0..n}

UpperAtom(a) ==
    CASE a = "www" -> "WWW"
      [] a = "vidsrc" -> "VIDSRC"
      [] a = "to" -> "TO"
      [] a = "evil" -> "EVIL"
      [] OTHER -> a

ToUpperCase(s) == [i \in DOMAIN s |-> UpperAtom(s[i])]

HostTexts == TextsUpTo(HostAlphabet, MaxHostAtoms)

GateSchemes == {<<>>, <<"https://">>}
GateUserinfo == {<<>>, <<"vidsrc", ".", "to", "@">>}
GatePaths == {<<>>, <<"/", "vidsrc", ".", "to">>}

\* u is null, a relative text, a lower-case URL, or a URL written in upper case
IsGateUrl(u) ==
    \/ u = Null
    \/ \E s \in GateSchemes, i \in GateUserinfo, h \in HostTexts, p \in GatePaths :
          u = s \o i \o h \o p
    \/ \E i \in GateUserinfo, h \in HostTexts, p \in GatePaths :
          u = <<"HTTPS://">> \o i \o ToUpperCase(h) \o p


----------------------------------------------------------------------------
(* Requests to the proxy *)

ProxyPaths == {"/api/proxy", "/api/check-embed", "/api/other"}

\* absent, empty, allowlisted (plain, www. in upper case, subdomain), not
\* allowlisted (name in the path, name as a suffix without a dot, name as
\* userinfo), and texts new URL() rejects or whose hostname is empty
ProxyTargets ==
    {Null, <<>>,
     <<"https://", "vidsrc", ".", "to", "/", "embed">>,
     <<"HTTPS://", "WWW", ".", "VIDSRC", ".", "TO">>,
     <<"https://", "cdn", ".", "vidsrc", ".", "to", "/", "a", " ", "b">>,
     <<"https://", "evil", ".", "com", "/", "vidsrc", ".", "to">>,
     <<"https://", "evil", "vidsrc", ".", "to">>,
     <<"https://", "vidsrc", ".", "to", "@", "evil", ".", "com">>,
     <<"vidsrc", ".", "to", "/", "embed">>,
     <<"https://", "www", ".">>}

----------------------------------------------------------------------------
(* Resolution requests *)

BodyKinds == {"empty", "invalid", "json"}
MediaTypes == {"movie", "tv", "music", "undefined"}
RawIds == {"550", "0", "abc", "undefined"}
RawSeasons == {"undefined", "1", "0"}
RawEpisodes == {"undefined", "2", "abc"}

----------------------------------------------------------------------------
(* The player *)

\* at most this many providers are configured
MaxProviders == 4

\* iframe errors are followed until the iframe has shown this many URLs
MaxRenders == 4

----------------------------------------------------------------------------
(* Calls of buildEmbedUrl *)

EmbedIds == {"550", "1399"}
EmbedSeasons == {"undefined", "0", "1", "3"}
EmbedEpisodes == {"undefined", "0", "1", "7"}

\* Providers given as a template: the two defaults of ENV (E2 for movies, E1
\* for tv, here without and with a query), and one that takes the type from
\* a placeholder
TemplateProviders ==
    {<<"https://", "vidlink", ".", "pro", "/", "movie", "/", "${id}">>,
     <<"https://", "vidlink", ".", "pro", "/", "tv", "/", "${id}", "/", "${season}", "/",
       "${episode}">>,
     <<"https://", "vidlink", ".", "pro", "/", "tv", "/", "${id}", "/", "${season}", "/",
       "${episode}", "?", "autoplay=true">>,
     <<"https://", "vidlink", ".", "pro", "/", "${type}", "/", "${id}">>}

\* Providers given as a literal base, without and with a trailing slash
BaseProviders ==
    {<<"https://", "vidlink", ".", "pro">>,
     <<"https://", "vidlink", ".", "pro", "/">>}

\* NEXT_PUBLIC_VIDEO_URL_PARAMS: unset, or one parameter
ExtraParams == {<<>>, <<"lang=en">>}

----------------------------------------------------------------------------
(* Proxied probes *)

\* The original URLs of the candidates of a movie and of a tv request
ProbeUrls ==
    LET lists == {buildAllEmbedCandidates("movie", "550", "1", "2"),
                  buildAllEmbedCandidates("tv", "1399", "1", "2")}
    IN  {list[i].originalUrl : list \in lists, i \in 1..4}
----------------------------------------------------------------------------
(* Each specification exercises one part; the other parts stay idle *)

GateIdle == gateUrl = Null /\ gateDone = FALSE /\ gateResult = FALSE
HtmlIdle == htmlIn = <<>> /\ htmlDone = FALSE /\ htmlOut = <<>>

ProxyIdle ==
    /\ pxMethod = "GET" /\ pxPath = "/api/proxy"
    /\ pxQueryTarget = Null /\ pxBodyTarget = Null
    /\ pxPc = "idle" /\ pxRoute = "none" /\ pxTarget = Null /\ pxAttempt = 0
    /\ pxFetched = <<>> /\ pxSleeps = <<>> /\ pxErrors = <<>> /\ pxOutcome = ""
    /\ pxUpstream = "" /\ pxUpstreamStatus = 0 /\ pxUpstreamHeaders = {} /\ pxBodyRead = ""
    /\ pxResponse = NoResponse

SelectIdle ==
    /\ rqMethod = "POST" /\ rqBody = "json" /\ rqMediaType = "movie" /\ rqTmdbId = "550"
    /\ rqSeason = "undefined" /\ rqEpisode = "undefined" /\ rqTestUrls = TRUE
    /\ slPc = "idle" /\ slArgs = None /\ slOutcomes = <<>> /\ slCandidates = <<>> /\ slIdx = 0 /\ slDirect = None
    /\ slAllResults = <<>> /\ slPrimary = None /\ slProbes = <<>> /\ slResponse = NoJson

CallerIdle == callerGone = FALSE

ProbeIdle == pbUrl = <<>> /\ pbResult = None

ReloadIdle == supPc = "none" /\ supI = 0 /\ supWrites = {}

EmbedIdle ==
    /\ emMediaType = "movie" /\ emTmdbId = "550"
    /\ emSeason = "undefined" /\ emEpisode = "undefined"
    /\ emTemplate = <<>> /\ emBase = <<>> /\ emExtra = <<>>
    /\ emDone = FALSE /\ emTemplateUrl = <<>> /\ emBaseUrl = <<>>

PlayerIdle ==
    /\ plMediaType = "movie" /\ plProviders = 2
    /\ embedUrl = <<>> /\ sources = <<>> /\ workingSources = <<>>
    /\ currentSourceIndex = 0 /\ loading = TRUE /\ error = NoError
    /\ isTesting = FALSE /\ checkResults = None
    /\ mounted = FALSE /\ cancelled = FALSE
    /\ loadPc = "idle" /\ loadI = 0 /\ errPc = "idle" /\ errStart = 0 /\ errI = 0
    /\ closed = FALSE /\ rendered = <<>> /\ failed = {} /\ errProbes = 0

----------------------------------------------------------------------------
(* The gate, called once *)

InitGate ==
    /\ IsGateUrl(gateUrl) /\ gateDone = FALSE /\ gateResult = FALSE
    /\ HtmlIdle /\ ProxyIdle /\ SelectIdle /\ PlayerIdle /\ CallerIdle /\ EmbedIdle /\ ProbeIdle /\ ReloadIdle

\* hostAllowedUrl(u) called on the drawn URL
CallHostAllowedUrl ==
    /\ ~gateDone
    /\ gateDone' = TRUE
    /\ gateResult' = hostAllowedUrl(gateUrl)
    /\ UNCHANGED <<gateUrl, htmlVars, proxyVars, selectVars, playerVars, callerVars, embedVars,
                   probeVars, reloadVars>>

NextGate == CallHostAllowedUrl

SpecGate == InitGate /\ [][NextGate]_vars

----------------------------------------------------------------------------
(* The rewriter, called once *)

InitRewrite ==
    /\ htmlIn \in HtmlBodies(MaxFrags) /\ htmlDone = FALSE /\ htmlOut = <<>>
    /\ GateIdle /\ ProxyIdle /\ SelectIdle /\ PlayerIdle /\ CallerIdle /\ EmbedIdle /\ ProbeIdle /\ ReloadIdle

\* rewriteAbsoluteUrlsToProxy(text) called on the drawn body
CallRewrite ==
    /\ ~htmlDone
    /\ htmlDone' = TRUE
    /\ htmlOut' = rewriteAbsoluteUrlsToProxy(htmlIn)
    /\ UNCHANGED <<htmlIn, gateVars, proxyVars, selectVars, playerVars, callerVars, embedVars,
                   probeVars, reloadVars>>

NextRewrite == CallRewrite

SpecRewrite == InitRewrite /\ [][NextRewrite]_vars

----------------------------------------------------------------------------
(* One request through the dispatchers to the proxy *)

InitProxy ==
    /\ pxMethod \in {"GET", "POST"}
    /\ pxPath \in ProxyPaths
    /\ pxQueryTarget \in ProxyTargets
    /\ pxBodyTarget \in (IF pxMethod = "POST" THEN ProxyTargets ELSE {Null})
    /\ pxPc = "idle" /\ pxRoute = "none" /\ pxTarget = Null /\ pxAttempt = 0
    /\ pxFetched = <<>> /\ pxSleeps = <<>> /\ pxErrors = <<>> /\ pxOutcome = ""
    /\ pxUpstream = "" /\ pxUpstreamStatus = 0 /\ pxUpstreamHeaders = {} /\ pxBodyRead = ""
    /\ pxResponse = NoResponse
    /\ GateIdle /\ HtmlIdle /\ SelectIdle /\ PlayerIdle /\ CallerIdle /\ EmbedIdle /\ ProbeIdle /\ ReloadIdle

\* GET / POST: the dispatcher, and for the proxy handleProxyGET up to its
\* first await (the answer of a rejected target, or the first fetch call)
ProxyRequest ==
    /\ pxPc = "idle"
    /\ LET route == Dispatch(pxMethod, pxPath, pxQueryTarget)
           read == ProxyTarget(pxMethod, pxQueryTarget, pxBodyTarget)
           missing == pxMethod = "POST" /\ Falsy(read)
           target == IF pxMethod = "POST" /\ ~missing
                     THEN FormDecode(FormEncode(read)) ELSE read
           status == IF missing THEN 400 ELSE ProxyPrecheck(target)
       IN  /\ pxRoute' = route
           /\ pxTarget' = IF route = "proxy" /\ ~missing THEN target ELSE pxTarget
           /\ pxPc' = IF route = "proxy" /\ status = 0 THEN "fetch" ELSE "done"
           /\ pxFetched' = IF route = "proxy" /\ status = 0 THEN <<target>> ELSE pxFetched
           /\ pxResponse' = IF route = "proxy" /\ status # 0
                            THEN ProxyError(status) ELSE pxResponse
    /\ UNCHANGED <<pxMethod, pxPath, pxQueryTarget, pxBodyTarget, pxAttempt, pxSleeps,
                   pxErrors, pxOutcome, pxUpstream, pxUpstreamStatus, pxUpstreamHeaders,
                   pxBodyRead>>
    /\ UNCHANGED <<gateVars, htmlVars, selectVars, playerVars, callerVars, embedVars,
                   probeVars, reloadVars>>

\* fetch resolved with a response: handleProxyGET answers
ProxyFetchReturns ==
    /\ pxPc = "fetch"
    /\ \E resp \in UpstreamResponses, sent \in UpstreamHeaderSets, bodyFails \in BOOLEAN :
       \E status \in UpstreamStatusesOf(resp) :
          /\ pxResponse' = ProxyAnswer(resp, status, sent, bodyFails)
          /\ pxUpstream' = resp
          /\ pxUpstreamStatus' = status
          /\ pxUpstreamHeaders' = sent
          /\ pxBodyRead' = IF resp = "non2xx" THEN "" ELSE IF bodyFails THEN "threw" ELSE "ok"
    /\ pxPc' = "done"
    /\ pxOutcome' = "response"
    /\ UNCHANGED <<pxMethod, pxPath, pxQueryTarget, pxBodyTarget, pxRoute, pxTarget,
                   pxAttempt, pxFetched, pxSleeps, pxErrors>>
    /\ UNCHANGED <<gateVars, htmlVars, selectVars, playerVars, callerVars, embedVars,
                   probeVars, reloadVars>>

\* fetch threw: give up with 502, or sleep the backoff
ProxyFetchThrows ==
    /\ pxPc = "fetch"
    /\ \E msg \in FetchErrors :
          LET giveUp == pxAttempt = ProxyRetries \/ ~IsTransient(msg) IN
          /\ pxPc' = IF giveUp THEN "done" ELSE "sleep"
          /\ pxResponse' = IF giveUp THEN ProxyError(502) ELSE pxResponse
          /\ pxSleeps' = IF giveUp THEN pxSleeps ELSE Append(pxSleeps, Backoff(pxAttempt))
          /\ pxErrors' = Append(pxErrors, msg)
          /\ pxOutcome' = IF giveUp THEN "thrown" ELSE pxOutcome
    /\ UNCHANGED <<pxMethod, pxPath, pxQueryTarget, pxBodyTarget, pxRoute, pxTarget,
                   pxAttempt, pxFetched, pxUpstream, pxUpstreamStatus, pxUpstreamHeaders,
                   pxBodyRead>>
    /\ UNCHANGED <<gateVars, htmlVars, selectVars, playerVars, callerVars, embedVars,
                   probeVars, reloadVars>>

\* the backoff elapsed: the next attempt calls fetch again
ProxySleepElapsed ==
    /\ pxPc = "sleep"
    /\ pxAttempt' = pxAttempt + 1
    /\ pxFetched' = Append(pxFetched, pxTarget)
    /\ pxPc' = "fetch"
    /\ UNCHANGED <<pxMethod, pxPath, pxQueryTarget, pxBodyTarget, pxRoute, pxTarget,
                   pxSleeps, pxErrors, pxOutcome, pxUpstream, pxUpstreamStatus, pxUpstreamHeaders,
                   pxBodyRead, pxResponse>>
    /\ UNCHANGED <<gateVars, htmlVars, selectVars, playerVars, callerVars, embedVars,
                   probeVars, reloadVars>>

\* The caller of the proxy request goes away while it is served. The handler
\* never reads request.signal: nothing but the signal changes.
ProxyCallerCancels ==
    /\ pxPc \in {"fetch", "sleep"}
    /\ ~callerGone
    /\ callerGone' = TRUE
    /\ UNCHANGED <<gateVars, htmlVars, proxyVars, selectVars, playerVars, embedVars,
                   probeVars, reloadVars>>

NextProxy ==
    \/ ProxyCallerCancels
    \/ ProxyRequest
    \/ ProxyFetchReturns
    \/ ProxyFetchThrows
    \/ ProxySleepElapsed

SpecProxy == InitProxy /\ [][NextProxy]_vars

\* The route handler runs once the request arrived: a step that takes the
\* request out of "idle" (it is a ProxyRequest step, the only action there).
ProxyHandlerRuns ==
    /\ pxPc = "idle"
    /\ pxPc' \in {"fetch", "done"}

\* The request is served and every await of the handler settles: the fetch
\* resolves or throws (the AbortController aborts it after timeoutMs), and
\* the sleep timer fires.
FairSpecProxy ==
    /\ SpecProxy
    /\ WF_pxPc(ProxyHandlerRuns)
    /\ WF_proxyVars(ProxyFetchReturns \/ ProxyFetchThrows)
    /\ WF_proxyVars(ProxySleepElapsed)

----------------------------------------------------------------------------
(* One resolution request, GET or POST *)

InitSelect ==
    /\ rqMethod \in {"GET", "POST"}
    /\ rqBody \in (IF rqMethod = "POST" THEN BodyKinds ELSE {"json"})
    /\ rqMediaType \in (IF rqBody = "json" THEN MediaTypes ELSE {"movie"})
    /\ rqTmdbId \in (IF rqBody = "json" THEN RawIds ELSE {"550"})
    /\ rqSeason \in (IF rqBody = "json" THEN RawSeasons ELSE {"undefined"})
    /\ rqEpisode \in (IF rqBody = "json" THEN RawEpisodes ELSE {"undefined"})
    /\ rqTestUrls \in (IF rqBody = "json" THEN BOOLEAN ELSE {TRUE})
    /\ slPc = "start" /\ slArgs = None /\ slOutcomes = <<>> /\ slCandidates = <<>> /\ slIdx = 0 /\ slDirect = None
    /\ slAllResults = <<>> /\ slPrimary = None /\ slProbes = <<>> /\ slResponse = NoJson
    /\ GateIdle /\ HtmlIdle /\ ProxyIdle /\ PlayerIdle /\ CallerIdle /\ EmbedIdle /\ ProbeIdle /\ ReloadIdle

\* handleCheckEmbedPOST up to its first fetchTest call: validation, candidate
\* generation, and the whole answer when testing is disabled
PostRequest ==
    /\ slPc = "start" /\ rqMethod = "POST"
    /\ LET tmdbId == Number(rqTmdbId)
           season == IF rqMediaType = "tv" /\ rqSeason # "undefined"
                     THEN Number(rqSeason) ELSE "undefined"
           episode == IF rqMediaType = "tv" /\ rqEpisode # "undefined"
                      THEN Number(rqEpisode) ELSE "undefined"
           invalid ==
               \/ rqBody # "json"
               \/ rqMediaType \notin {"movie", "tv"}
               \/ ~IsFinite(tmdbId) \/ NonPositive(tmdbId)
               \/ /\ rqMediaType = "tv"
                  /\ (~IsFinite(season) \/ NonPositive(season)
                       \/ ~IsFinite(episode) \/ NonPositive(episode))
           cands == buildAllEmbedCandidates(rqMediaType, tmdbId, season, episode)
           untested == [i \in DOMAIN cands |-> UntestedResult(cands[i])]
       IN  IF invalid
           THEN /\ slResponse' = JsonResponse(400, None)
                /\ slPc' = "done"
                /\ UNCHANGED <<slArgs, slCandidates, slIdx, slAllResults, slPrimary, slProbes>>
           ELSE IF rqTestUrls
           THEN /\ slArgs' = Some(<<rqMediaType, tmdbId, season, episode>>)
                /\ slCandidates' = cands
                /\ slIdx' = 1
                /\ slProbes' = <<cands[1].originalUrl>>
                /\ slPc' = "direct"
                /\ UNCHANGED <<slAllResults, slPrimary, slResponse>>
           ELSE /\ slArgs' = Some(<<rqMediaType, tmdbId, season, episode>>)
                /\ slCandidates' = cands
                /\ slAllResults' = untested
                /\ slPrimary' = UntestedPrimary(cands)
                /\ slResponse' = JsonResponse(200,
                       Some(CheckEmbedBody(cands, UntestedPrimary(cands), untested)))
                /\ slPc' = "done"
                /\ UNCHANGED <<slIdx, slProbes>>
    /\ UNCHANGED <<requestVars, slDirect, slOutcomes>>
    /\ UNCHANGED <<gateVars, htmlVars, proxyVars, playerVars, callerVars, embedVars,
                   probeVars, reloadVars>>

\* handleCheckEmbedGET up to its first fetchTest call: the two 400 answers,
\* candidate generation, and the whole answer when testing is disabled. An
\* absent query parameter is "undefined" (searchParams.get gives null).
GetRequest ==
    /\ slPc = "start" /\ rqMethod = "GET"
    /\ LET tmdbId == Number(rqTmdbId)
           season == IF rqSeason # "undefined" THEN Number(rqSeason) ELSE "1"
           episode == IF rqEpisode # "undefined" THEN Number(rqEpisode) ELSE "1"
           invalid ==
               \/ rqMediaType = "undefined" \/ rqTmdbId = "undefined"
               \/ rqMediaType \notin {"movie", "tv"}
           cands == buildAllEmbedCandidates(rqMediaType, tmdbId, season, episode)
           untested == [i \in DOMAIN cands |-> UntestedResult(cands[i])]
       IN  IF invalid
           THEN /\ slResponse' = JsonResponse(400, None)
                /\ slPc' = "done"
                /\ UNCHANGED <<slArgs, slCandidates, slIdx, slAllResults, slPrimary, slProbes>>
           ELSE IF rqTestUrls
           THEN /\ slArgs' = Some(<<rqMediaType, tmdbId, season, episode>>)
                /\ slCandidates' = cands
                /\ slIdx' = 1
                /\ slProbes' = <<cands[1].originalUrl>>
                /\ slPc' = "direct"
                /\ UNCHANGED <<slAllResults, slPrimary, slResponse>>
           ELSE /\ slArgs' = Some(<<rqMediaType, tmdbId, season, episode>>)
                /\ slCandidates' = cands
                /\ slAllResults' = untested
                /\ slPrimary' = UntestedPrimary(cands)
                /\ slResponse' = JsonResponse(200,
                       Some(CheckEmbedGetBody(UntestedPrimary(cands), untested)))
                /\ slPc' = "done"
                /\ UNCHANGED <<slIdx, slProbes>>
    /\ UNCHANGED <<requestVars, slDirect, slOutcomes>>
    /\ UNCHANGED <<gateVars, htmlVars, proxyVars, playerVars, callerVars, embedVars,
                   probeVars, reloadVars>>

\* The result object of the handler that serves the request
ResultOf(candidate, directResult, proxyResult) ==
    IF rqMethod = "GET" THEN GetTestedResult(candidate, directResult, proxyResult)
    ELSE TestedResult(candidate, directResult, proxyResult)

\* The end of one iteration of the loop over the candidates: push the result,
\* select the primary, then probe the next candidate or answer.
AfterCandidate(result, probes) ==
    LET results == Append(slAllResults, result)
        primary == SelectPrimary(slPrimary, result)
    IN  /\ slAllResults' = results
        /\ slPrimary' = primary
        /\ slDirect' = None
        /\ IF slIdx = TestedCount(rqMethod, slCandidates)
           THEN /\ slPc' = "done"
                /\ slResponse' = JsonResponse(200,
                       Some(IF rqMethod = "GET" THEN CheckEmbedGetBody(primary, results)
                            ELSE CheckEmbedBody(slCandidates, primary, results)))
                /\ slProbes' = probes
                /\ UNCHANGED slIdx
           ELSE /\ slPc' = "direct"
                /\ slIdx' = slIdx + 1
                /\ slProbes' = Append(probes, slCandidates[slIdx + 1].originalUrl)
                /\ UNCHANGED slResponse

\* The catch of the handler: an exception inside the try is answered with 500
Caught ==
    /\ slResponse' = JsonResponse(500, None)
    /\ slPc' = "done"
    /\ UNCHANGED <<slIdx, slDirect, slAllResults, slPrimary, slProbes>>

\* fetchTest(candidate.originalUrl, ...) settled
DirectProbeSettled ==
    /\ slPc = "direct"
    /\ \E outcome \in FetchOutcomes :
          LET candidate == slCandidates[slIdx]
              directResult == fetchTest(outcome)
          IN  /\ slOutcomes' = Append(slOutcomes, outcome)
              /\ IF directResult = Thrown
                 THEN Caught
                 ELSE IF ~NeedsProxyProbe(candidate, directResult)
                 THEN AfterCandidate(ResultOf(candidate, directResult, None), slProbes)
                 ELSE /\ slDirect' = Some(directResult)
                      /\ slProbes' = Append(slProbes, proxyAbsoluteOf(candidate))
                      /\ slPc' = "proxy"
                      /\ UNCHANGED <<slIdx, slAllResults, slPrimary, slResponse>>
    /\ UNCHANGED <<requestVars, slArgs, slCandidates>>
    /\ UNCHANGED <<gateVars, htmlVars, proxyVars, playerVars, callerVars, embedVars,
                   probeVars, reloadVars>>

\* fetchTest(proxyAbsolute, ...) settled
ProxyProbeSettled ==
    /\ slPc = "proxy"
    /\ \E outcome \in FetchOutcomes :
          LET proxyResult == fetchTest(outcome) IN
          /\ slOutcomes' = Append(slOutcomes, outcome)
          /\ IF proxyResult = Thrown
             THEN Caught
             ELSE AfterCandidate(ResultOf(slCandidates[slIdx], slDirect[1],
                                          Some(proxyResult)), slProbes)
    /\ UNCHANGED <<requestVars, slArgs, slCandidates>>
    /\ UNCHANGED <<gateVars, htmlVars, proxyVars, playerVars, callerVars, embedVars,
                   probeVars, reloadVars>>

\* The caller of the resolution request goes away while it is served. Neither
\* handler reads req.signal: nothing but the signal changes.
SelectCallerCancels ==
    /\ slPc \in {"direct", "proxy"}
    /\ ~callerGone
    /\ callerGone' = TRUE
    /\ UNCHANGED <<gateVars, htmlVars, proxyVars, selectVars, playerVars, embedVars,
                   probeVars, reloadVars>>

NextSelect ==
    \/ SelectCallerCancels
    \/ PostRequest
    \/ GetRequest
    \/ DirectProbeSettled
    \/ ProxyProbeSettled

SpecSelect == InitSelect /\ [][NextSelect]_vars

----------------------------------------------------------------------------
(* The VideoPlayer component, from its mount *)

\* The iframe is in the rendered tree
IframeShown ==
    mounted /\ embedUrl # <<>> /\ ~loading /\ error = NoError /\ ~isTesting

\* A React state setter: it has no effect once the component is unmounted
Set(old, new) == IF mounted THEN new ELSE old

\* rendered gains the URL the iframe shows after the step, when the step put
\* the iframe into the tree or changed its src
TrackRender ==
    rendered' = IF IframeShown' /\ (~IframeShown \/ embedUrl' # embedUrl)
                THEN Append(rendered, embedUrl')
                ELSE rendered

\* The state after the mount: loadSources ran to its first await
InitPlayer ==
    /\ plMediaType \in {"movie", "tv"}
    /\ plProviders \in 2..MaxProviders
    /\ embedUrl = <<>> /\ sources = <<>> /\ workingSources = <<>>
    /\ currentSourceIndex = 0 /\ loading = TRUE /\ error = NoError
    /\ isTesting = FALSE /\ checkResults = None
    /\ mounted = TRUE /\ cancelled = FALSE
    /\ loadPc = "getSources" /\ loadI = 0 /\ errPc = "idle" /\ errStart = 0 /\ errI = 0
    /\ closed = FALSE /\ rendered = <<>> /\ failed = {} /\ errProbes = 0
    /\ GateIdle /\ HtmlIdle /\ ProxyIdle /\ SelectIdle /\ CallerIdle /\ EmbedIdle /\ ProbeIdle /\ ReloadIdle

\* loadSources: getMovieSources / getTVSources resolved
LoadSourcesResolved ==
    /\ loadPc = "getSources"
    /\ IF cancelled
       THEN loadPc' = "done" /\ UNCHANGED sources
       ELSE loadPc' = "fetch" /\ sources' = Set(sources, getSources(plProviders))
    /\ UNCHANGED <<plMediaType, plProviders, embedUrl, workingSources, currentSourceIndex,
                   loading, error, isTesting, checkResults, mounted, cancelled, loadI,
                   errPc, errStart, errI, closed, rendered, failed, errProbes>>
    /\ UNCHANGED <<gateVars, htmlVars, proxyVars, selectVars, callerVars, embedVars,
                   probeVars, reloadVars>>

\* loadSources, step 3: the client-side testing fallback up to its first
\* testSource call
StartClientTesting ==
    LET videoSources == getSources(plProviders) IN
    IF videoSources = <<>>
    THEN /\ error' = Set(error, NoSources)
         /\ loading' = Set(loading, FALSE)
         /\ loadPc' = "done"
         /\ UNCHANGED <<isTesting, loadI>>
    ELSE /\ isTesting' = Set(isTesting, TRUE)
         /\ loadPc' = IF cancelled THEN "done" ELSE "test"
         /\ loadI' = 0
         /\ UNCHANGED <<error, loading>>

\* loadSources: the POST to /api/check-embed settled
LoadFetchSettled ==
    /\ loadPc = "fetch"
    /\ \E outcome \in {"ok", "non-ok", "rejected"} :
          IF outcome = "ok"
          THEN loadPc' = "json" /\ UNCHANGED <<error, loading, isTesting, loadI>>
          ELSE StartClientTesting
    /\ UNCHANGED <<plMediaType, plProviders, embedUrl, sources, workingSources,
                   currentSourceIndex, checkResults, mounted, cancelled,
                   errPc, errStart, errI, closed, failed, errProbes>>
    /\ TrackRender
    /\ UNCHANGED <<gateVars, htmlVars, proxyVars, selectVars, callerVars, embedVars,
                   probeVars, reloadVars>>

\* loadSources: resp.json() settled
LoadJsonSettled ==
    /\ loadPc = "json"
    /\ \E parsed \in {None} \cup {Some(b) : b \in ServerBodies(plMediaType)} :
          IF parsed = None
          THEN /\ StartClientTesting
               /\ UNCHANGED <<checkResults, embedUrl, workingSources, currentSourceIndex>>
          ELSE LET data == parsed[1] IN
               /\ checkResults' = Set(checkResults, Some(data))
               /\ loadPc' = "done"
               /\ UNCHANGED <<error, isTesting, loadI>>
               /\ IF cancelled
                  THEN UNCHANGED <<embedUrl, workingSources, currentSourceIndex, loading>>
                  ELSE IF HasWorkingUrl(data)
                  THEN /\ embedUrl' = Set(embedUrl, data.workingUrl[1].url)
                       /\ workingSources' = Set(workingSources, WorkingList(data))
                       /\ currentSourceIndex' = Set(currentSourceIndex, 0)
                       /\ loading' = Set(loading, FALSE)
                  ELSE /\ embedUrl' = Set(embedUrl, UrlOf(data.allUrls[1]))
                       /\ workingSources' = Set(workingSources, data.allUrls)
                       /\ currentSourceIndex' = Set(currentSourceIndex, 0)
                       /\ loading' = Set(loading, FALSE)
    /\ UNCHANGED <<plMediaType, plProviders, sources, mounted, cancelled,
                   errPc, errStart, errI, closed, failed, errProbes>>
    /\ TrackRender
    /\ UNCHANGED <<gateVars, htmlVars, proxyVars, selectVars, callerVars, embedVars,
                   probeVars, reloadVars>>

\* loadSources: testSource(videoSources[i].url) of the fallback loop settled
LoadTestSettled ==
    /\ loadPc = "test"
    /\ \E ok \in BOOLEAN :
          LET videoSources == getSources(plProviders) IN
          IF ok
          THEN /\ currentSourceIndex' = Set(currentSourceIndex, loadI)
               /\ embedUrl' = Set(embedUrl, videoSources[loadI + 1].url)
               /\ isTesting' = Set(isTesting, FALSE)
               /\ loading' = Set(loading, FALSE)
               /\ loadPc' = "done"
               /\ UNCHANGED <<error, loadI>>
          ELSE IF loadI + 1 < Len(videoSources)
          THEN /\ loadPc' = IF cancelled THEN "done" ELSE "test"
               /\ loadI' = loadI + 1
               /\ UNCHANGED <<currentSourceIndex, embedUrl, isTesting, loading, error>>
          ELSE /\ error' = Set(error, AllFailed)
               /\ isTesting' = Set(isTesting, FALSE)
               /\ loading' = Set(loading, FALSE)
               /\ loadPc' = "done"
               /\ UNCHANGED <<currentSourceIndex, embedUrl, loadI>>
    /\ UNCHANGED <<plMediaType, plProviders, sources, workingSources, checkResults,
                   mounted, cancelled, errPc, errStart, errI, closed, failed, errProbes>>
    /\ TrackRender
    /\ UNCHANGED <<gateVars, htmlVars, proxyVars, selectVars, callerVars, embedVars,
                   probeVars, reloadVars>>

\* handleIframeError up to its first await: the iframe reported an error
IframeError ==
    /\ IframeShown
    /\ errPc = "idle"
    /\ Len(rendered) <= MaxRenders
    /\ failed' = failed \cup {embedUrl}
    /\ LET nextIndex == IF workingSources # <<>>
                        THEN NextIndex(workingSources, currentSourceIndex) ELSE -1
           wrapIndex == IF workingSources # <<>> /\ nextIndex = -1
                        THEN WrapIndex(workingSources, currentSourceIndex) ELSE -1
           target == IF nextIndex # -1 THEN nextIndex ELSE wrapIndex
           startIndex == IF currentSourceIndex + 1 > 0 THEN currentSourceIndex + 1 ELSE 0
       IN  IF target # -1
           THEN /\ currentSourceIndex' = target
                /\ embedUrl' = UrlOf(workingSources[target + 1])
                /\ error' = NoError
                /\ UNCHANGED <<errPc, errStart, errI, errProbes>>
           ELSE IF startIndex < Len(sources)
           THEN /\ errPc' = "test"
                /\ errStart' = startIndex
                /\ errI' = 0
                /\ errProbes' = errProbes + 1
                /\ UNCHANGED <<currentSourceIndex, embedUrl, error>>
           ELSE /\ error' = AllFailed
                /\ UNCHANGED <<currentSourceIndex, embedUrl, errPc, errStart, errI,
                               errProbes>>
    /\ UNCHANGED <<plMediaType, plProviders, sources, workingSources, loading, isTesting,
                   checkResults, mounted, cancelled, loadPc, loadI, closed>>
    /\ TrackRender
    /\ UNCHANGED <<gateVars, htmlVars, proxyVars, selectVars, callerVars, embedVars,
                   probeVars, reloadVars>>

\* handleIframeError, step 2: testSource(remaining[i].url, 4000) settled
ErrTestSettled ==
    /\ errPc = "test"
    /\ \E ok \in BOOLEAN :
          IF ok
          THEN /\ currentSourceIndex' = Set(currentSourceIndex, errStart + errI)
               /\ embedUrl' = Set(embedUrl, sources[errStart + errI + 1].url)
               /\ error' = Set(error, NoError)
               /\ errPc' = "idle"
               /\ UNCHANGED <<errI, errProbes>>
          ELSE IF errStart + errI + 1 < Len(sources)
          THEN /\ errI' = errI + 1
               /\ errProbes' = errProbes + 1
               /\ UNCHANGED <<currentSourceIndex, embedUrl, error, errPc>>
          ELSE /\ error' = Set(error, AllFailed)
               /\ errPc' = "idle"
               /\ UNCHANGED <<currentSourceIndex, embedUrl, errI, errProbes>>
    /\ UNCHANGED <<plMediaType, plProviders, sources, workingSources, loading, isTesting,
                   checkResults, mounted, cancelled, loadPc, loadI, errStart, closed,
                   failed>>
    /\ TrackRender
    /\ UNCHANGED <<gateVars, htmlVars, proxyVars, selectVars, callerVars, embedVars,
                   probeVars, reloadVars>>

\* handleIframeLoad: the iframe loaded
IframeLoad ==
    /\ IframeShown
    /\ error' = NoError
    /\ UNCHANGED <<plMediaType, plProviders, embedUrl, sources, workingSources,
                   currentSourceIndex, loading, isTesting, checkResults, mounted,
                   cancelled, loadPc, loadI, errPc, errStart, errI, closed, rendered,
                   failed, errProbes>>
    /\ UNCHANGED <<gateVars, htmlVars, proxyVars, selectVars, callerVars, embedVars,
                   probeVars, reloadVars>>

\* handleClose (the Back button or ESC): onClose() of the page, router.back()
Close ==
    /\ mounted
    /\ ~closed
    /\ closed' = TRUE
    /\ UNCHANGED <<plMediaType, plProviders, playerState, mounted, cancelled, loadPc,
                   loadI, errPc, errStart, errI, rendered, failed, errProbes>>
    /\ UNCHANGED <<gateVars, htmlVars, proxyVars, selectVars, callerVars, embedVars,
                   probeVars, reloadVars>>

\* The component unmounts (the navigation completed): the effect cleanup runs
Unmount ==
    /\ mounted
    /\ mounted' = FALSE
    /\ cancelled' = TRUE
    /\ UNCHANGED <<plMediaType, plProviders, playerState, loadPc, loadI, errPc, errStart,
                   errI, closed, rendered, failed, errProbes>>
    /\ UNCHANGED <<gateVars, htmlVars, proxyVars, selectVars, callerVars, embedVars,
                   probeVars, reloadVars>>

NextPlayer ==
    \/ LoadSourcesResolved
    \/ LoadFetchSettled
    \/ LoadJsonSettled
    \/ LoadTestSettled
    \/ IframeError
    \/ ErrTestSettled
    \/ IframeLoad
    \/ Close
    \/ Unmount

SpecPlayer == InitPlayer /\ [][NextPlayer]_vars


-----------------------------------------------------------------------------
(* buildEmbedUrl on a template provider and on a base provider *)

InitEmbed ==
    /\ emMediaType \in {"movie", "tv"}
    /\ emTmdbId \in EmbedIds
    /\ emSeason \in EmbedSeasons
    /\ emEpisode \in EmbedEpisodes
    /\ emTemplate \in TemplateProviders
    /\ emBase \in BaseProviders
    /\ emExtra \in ExtraParams
    /\ emDone = FALSE /\ emTemplateUrl = <<>> /\ emBaseUrl = <<>>
    /\ GateIdle /\ HtmlIdle /\ ProxyIdle /\ SelectIdle /\ PlayerIdle /\ CallerIdle /\ ProbeIdle /\ ReloadIdle

CallBuildEmbedUrl ==
    /\ ~emDone
    /\ emDone' = TRUE
    /\ emTemplateUrl' = buildEmbedUrl(emTemplate, emMediaType, emTmdbId, emSeason, emEpisode,
                                      emExtra)
    /\ emBaseUrl' = buildEmbedUrl(emBase, emMediaType, emTmdbId, emSeason, emEpisode, emExtra)
    /\ UNCHANGED <<emMediaType, emTmdbId, emSeason, emEpisode, emTemplate, emBase, emExtra>>
    /\ UNCHANGED <<gateVars, htmlVars, proxyVars, selectVars, playerVars, callerVars,
                   probeVars, reloadVars>>

NextEmbed == CallBuildEmbedUrl

SpecEmbed == InitEmbed /\ [][NextEmbed]_vars

-----------------------------------------------------------------------------
(* One proxied probe: fetchTest(proxyAbsolute) against handleProxyGET *)

\* The request fetchTest sends for the candidate: GET /api/proxy with the
\* target parameter of candidate.proxyCandidate
InitProbe ==
    /\ pbUrl \in ProbeUrls
    /\ pbResult = None
    /\ pxMethod = "GET" /\ pxPath = "/api/proxy"
    /\ pxQueryTarget = searchParamsGet(Tail(make("VidLink", pbUrl, "movie").proxyCandidate))
    /\ pxBodyTarget = Null
    /\ pxPc = "idle" /\ pxRoute = "none" /\ pxTarget = Null /\ pxAttempt = 0
    /\ pxFetched = <<>> /\ pxSleeps = <<>> /\ pxErrors = <<>> /\ pxOutcome = ""
    /\ pxUpstream = "" /\ pxUpstreamStatus = 0 /\ pxUpstreamHeaders = {} /\ pxBodyRead = ""
    /\ pxResponse = NoResponse
    /\ GateIdle /\ HtmlIdle /\ SelectIdle /\ PlayerIdle /\ CallerIdle /\ EmbedIdle /\ ReloadIdle

\* The proxy answered before the timeout of the probe: fetchTest returns by
\* res.ok
ProbeResponds ==
    /\ pbResult = None
    /\ pxPc = "done"
    /\ pbResult' = Some(fetchTest(ProbeOutcomeOf(pxResponse)))
    /\ UNCHANGED pbUrl
    /\ UNCHANGED <<gateVars, htmlVars, proxyVars, selectVars, playerVars, callerVars,
                   embedVars, reloadVars>>

\* The timeout of the probe aborts its fetch, or the connection to the proxy
\* fails: fetchTest returns from its catch. The proxy handler runs on.
ProbeAborts ==
    /\ pbResult = None
    /\ pbResult' = Some(fetchTest("throws"))
    /\ UNCHANGED pbUrl
    /\ UNCHANGED <<gateVars, htmlVars, proxyVars, selectVars, playerVars, callerVars,
                   embedVars, reloadVars>>

NextProbe ==
    \/ ProxyRequest
    \/ ProxyFetchReturns
    \/ ProxyFetchThrows
    \/ ProxySleepElapsed
    \/ ProbeResponds
    \/ ProbeAborts

SpecProbe == InitProbe /\ [][NextProbe]_vars

-----------------------------------------------------------------------------
(* The VideoPlayer component when its props change during a load *)

\* The superseded load called the setters named in names
Wrote(names) == IF mounted THEN supWrites \cup names ELSE supWrites

\* mediaId, season or episode changed: the cleanup of the effect sets the
\* cancelled flag of the running load, the effect runs again and the new
\* loadSources runs to its first await with a cancelled flag of its own
PropsChange ==
    /\ mounted
    /\ supPc = "none"
    /\ supPc' = loadPc /\ supI' = loadI /\ supWrites' = {}
    /\ loading' = TRUE /\ error' = NoError /\ embedUrl' = <<>>
    /\ checkResults' = None /\ workingSources' = <<>> /\ currentSourceIndex' = 0
    /\ cancelled' = FALSE /\ loadPc' = "getSources" /\ loadI' = 0
    /\ UNCHANGED <<plMediaType, plProviders, sources, isTesting, mounted, errPc, errStart,
                   errI, closed, failed, errProbes>>
    /\ TrackRender
    /\ UNCHANGED <<gateVars, htmlVars, proxyVars, selectVars, callerVars, embedVars,
                   probeVars>>

\* The superseded load: getMovieSources / getTVSources resolved, cancelled
\* is set and the load returns
SupSourcesResolved ==
    /\ supPc = "getSources"
    /\ supPc' = "done"
    /\ UNCHANGED <<supI, supWrites>>
    /\ UNCHANGED <<playerVars, gateVars, htmlVars, proxyVars, selectVars, callerVars,
                   embedVars, probeVars>>

\* The superseded load enters step 3: no test of cancelled before the loop
SupClientTesting ==
    LET videoSources == getSources(plProviders) IN
    IF videoSources = <<>>
    THEN /\ error' = Set(error, NoSources)
         /\ loading' = Set(loading, FALSE)
         /\ supWrites' = Wrote({"error", "loading"})
         /\ UNCHANGED isTesting
    ELSE /\ isTesting' = Set(isTesting, TRUE)
         /\ supWrites' = Wrote({"isTesting"})
         /\ UNCHANGED <<error, loading>>

\* The superseded load: the POST to /api/check-embed settled
SupFetchSettled ==
    /\ supPc = "fetch"
    /\ \E outcome \in {"ok", "non-ok", "rejected"} :
          IF outcome = "ok"
          THEN supPc' = "json" /\ UNCHANGED <<error, loading, isTesting, supWrites>>
          ELSE supPc' = "done" /\ SupClientTesting
    /\ UNCHANGED <<plMediaType, plProviders, embedUrl, sources, workingSources,
                   currentSourceIndex, checkResults, mounted, cancelled, loadPc, loadI,
                   errPc, errStart, errI, closed, failed, errProbes, supI>>
    /\ TrackRender
    /\ UNCHANGED <<gateVars, htmlVars, proxyVars, selectVars, callerVars, embedVars,
                   probeVars>>

\* The superseded load: resp.json() settled; setCheckResults(data) comes
\* before the test of cancelled
SupJsonSettled ==
    /\ supPc = "json"
    /\ supPc' = "done"
    /\ \E parsed \in {None} \cup {Some(b) : b \in ServerBodies(plMediaType)} :
          IF parsed = None
          THEN SupClientTesting /\ UNCHANGED checkResults
          ELSE /\ checkResults' = Set(checkResults, parsed)
               /\ supWrites' = Wrote({"checkResults"})
               /\ UNCHANGED <<error, loading, isTesting>>
    /\ UNCHANGED <<plMediaType, plProviders, embedUrl, sources, workingSources,
                   currentSourceIndex, mounted, cancelled, loadPc, loadI,
                   errPc, errStart, errI, closed, failed, errProbes, supI>>
    /\ TrackRender
    /\ UNCHANGED <<gateVars, htmlVars, proxyVars, selectVars, callerVars, embedVars,
                   probeVars>>

\* The superseded load: testSource(videoSources[i].url) settled; cancelled is
\* tested at the top of the next iteration only
SupTestSettled ==
    /\ supPc = "test"
    /\ supPc' = "done"
    /\ \E ok \in BOOLEAN :
          LET videoSources == getSources(plProviders) IN
          IF ok
          THEN /\ currentSourceIndex' = Set(currentSourceIndex, supI)
               /\ embedUrl' = Set(embedUrl, videoSources[supI + 1].url)
               /\ isTesting' = Set(isTesting, FALSE)
               /\ loading' = Set(loading, FALSE)
               /\ supWrites' = Wrote({"currentSourceIndex", "embedUrl", "isTesting",
                                      "loading"})
               /\ UNCHANGED error
          ELSE IF supI + 1 < Len(videoSources)
          THEN UNCHANGED <<currentSourceIndex, embedUrl, isTesting, loading, error,
                           supWrites>>
          ELSE /\ error' = Set(error, AllFailed)
               /\ isTesting' = Set(isTesting, FALSE)
               /\ loading' = Set(loading, FALSE)
               /\ supWrites' = Wrote({"error", "isTesting", "loading"})
               /\ UNCHANGED <<currentSourceIndex, embedUrl>>
    /\ UNCHANGED <<plMediaType, plProviders, sources, workingSources, checkResults,
                   mounted, cancelled, loadPc, loadI, errPc, errStart, errI, closed,
                   failed, errProbes, supI>>
    /\ TrackRender
    /\ UNCHANGED <<gateVars, htmlVars, proxyVars, selectVars, callerVars, embedVars,
                   probeVars>>

NextReload ==
    \/ NextPlayer
    \/ PropsChange
    \/ SupSourcesResolved
    \/ SupFetchSettled
    \/ SupJsonSettled
    \/ SupTestSettled

\* The mount of the player of a movie with the two providers that are always
\* configured
InitReload == InitPlayer /\ plMediaType = "movie" /\ plProviders = 2

SpecReload == InitReload /\ [][NextReload]_vars
----------------------------------------------------------------------------
(* Claims about the rewriter *)

\* decodeURIComponent, atom by atom (the inverse of EncAtom).
DecAtom(a) ==
    CASE a = "https%3A%2F%2F" -> "https://"
      [] a = "http%3A%2F%2F" -> "http://"
      [] a = "HTTPS%3A%2F%2F" -> "HTTPS://"
      [] a = "%2F" -> "/"
      [] a = "%20" -> " "
      [] a = "%40" -> "@"
      [] a = "%3F" -> "?"
      [] a = "%23" -> "#"
      [] a = "%26" -> "&"
      [] a = "%22" -> DQ
      [] a = "%60" -> BQ
      [] OTHER -> a

\* The targets of the proxied links of a body: after each proxy prefix, the
\* text up to the next quote, decoded.
ProxiedTargets(html) ==
    {[k \in 1..(FirstIn(Drop(html, j), Quotes) - 1) |-> DecAtom(html[j + k])] :
        j \in {i \in 1..Len(html) : html[i] = ProxyPrefix /\ FirstIn(Drop(html, i), Quotes) > 0}}

\* t occurs in s as a contiguous run
Contains(s, t) == \E i \in 0..(Len(s) - Len(t)) : SubSeq(s, i + 1, i + Len(t)) = t

\* The src= / href= attributes of a body that hold an absolute http(s) URL:
\* the whole attribute text, from the attribute name to its closing quote.
UrlAttributes(html) ==
    {SubSeq(html, i, i + Match1(Drop(html, i - 1)) - 1) :
        i \in {j \in 1..Len(html) : Match1(Drop(html, j - 1)) > 0}}

\* The URL held by an attribute text
AttributeUrl(a) == SubSeq(a, 3, Len(a) - 1)

\* Every proxied link of the rewritten body targets an allowlisted host.
RewriteTargetsAllowlisted ==
    htmlDone => \A t \in ProxiedTargets(htmlOut) : hostAllowedUrl(t)

\* C4: the rewrite turns an absolute URL into a proxied link only if its host
\* passes the allowlist: every proxied link of the output targets an
\* allowlisted host, and every src= / href= attribute whose URL has a
\* non-allowlisted or unparseable host is in the output unchanged.
C4_RewriteOnlyAllowlisted ==
    /\ RewriteTargetsAllowlisted
    /\ htmlDone =>
          \A a \in UrlAttributes(htmlIn) :
             ~hostAllowedUrl(AttributeUrl(a)) => Contains(htmlOut, a)

----------------------------------------------------------------------------
(* Claims about the gate *)

\* The hostname the claim speaks of: lower-cased, then a leading www. removed.
ClaimHost(u) ==
    IF Falsy(u) \/ URLHostname(u) = Null THEN Null
    ELSE StripWww(ToLowerCase(URLHostname(u)))

\* host ends with an allowlist entry that is not preceded by a dot
EndsWithoutDotBoundary(host) ==
    \E k \in DOMAIN ALLOWED_HOSTS :
        /\ EndsWith(host, ALLOWED_HOSTS[k])
        /\ Len(host) > Len(ALLOWED_HOSTS[k])
        /\ host[Len(host) - Len(ALLOWED_HOSTS[k])] # "."

\* C5: the gate answers true exactly when the hostname, lower-cased and with a
\* leading www. removed, is an allowlist entry or ends with a dot followed by
\* an entry; an entry that ends the host without a dot boundary does not
\* count, and a null or malformed URL is answered false.
C5_GateIffHostOrSubdomain ==
    gateDone =>
        LET h == ClaimHost(gateUrl) IN
        /\ gateResult =
              (/\ h # Null
               /\ \E k \in DOMAIN ALLOWED_HOSTS :
                     h = ALLOWED_HOSTS[k] \/ EndsWith(h, <<".">> \o ALLOWED_HOSTS[k]))
        /\ (h = Null => ~gateResult)
        /\ (h # Null /\ EndsWithoutDotBoundary(h)
               /\ ~(\E k \in DOMAIN ALLOWED_HOSTS : EndsWith(h, <<".">> \o ALLOWED_HOSTS[k]))
             => ~gateResult)

\* An entry written in upper case behind WWW., with the entry's name also in
\* the path, is accepted.
C5_Witness ==
    /\ gateDone /\ gateResult
    /\ gateUrl = <<"HTTPS://", "WWW", ".", "VIDSRC", ".", "TO", "/", "vidsrc", ".", "to">>


----------------------------------------------------------------------------
(* Claims about the selection engine *)

\* The body of a 200 answer to a POST request that asked for testing
TestedAnswer ==
    slPc = "done" /\ slResponse.status = 200 /\ rqTestUrls /\ rqMethod = "POST"

\* The reachable entries of a diagnostics list: the direct probe or the
\* proxied probe succeeded
ReachableEntries(allUrls) ==
    {i \in DOMAIN allUrls :
        \/ allUrls[i].direct # None /\ allUrls[i].direct[1].ok
        \/ allUrls[i].proxy # None /\ allUrls[i].proxy[1].ok}

Least(S) == CHOOSE i \in S : \A j \in S : i <= j

Range(s) == {s[i] : i \in DOMAIN s}

\* C1: with testing enabled the chosen candidate is the lowest-index candidate
\* whose direct or proxied probe succeeded; every generated candidate was
\* probed and is in the diagnostics, and totalTested is the candidate count.
C1_FirstReachableChosenAllProbed ==
    TestedAnswer =>
        LET body == slResponse.body[1]
            n == IF rqMediaType = "movie" THEN 3 ELSE 4
            ok == ReachableEntries(body.allUrls)
        IN  /\ Len(slCandidates) = n
            /\ body.totalTested = n
            /\ Len(body.allUrls) = n
            /\ \A i \in 1..n :
                  /\ body.allUrls[i].originalUrl = slCandidates[i].originalUrl
                  /\ body.allUrls[i].tested
                  /\ body.allUrls[i].direct # None
                  /\ slCandidates[i].originalUrl \in Range(slProbes)
            /\ ok # {} =>
                  /\ body.workingUrl # None
                  /\ body.workingUrl[1].originalUrl = slCandidates[Least(ok)].originalUrl
                  /\ body.workingUrl[1].provider = slCandidates[Least(ok)].provider

\* The first two candidates failed both probes, the third answered through
\* the proxy and is chosen; all three were probed.
C1_Witness ==
    /\ TestedAnswer
    /\ rqMediaType = "movie"
    /\ ReachableEntries(slResponse.body[1].allUrls) = {3}
    /\ slResponse.body[1].allUrls[3].usedProxy
    /\ slResponse.body[1].workingUrl # None
    /\ slResponse.body[1].workingUrl[1].provider = "2Embed"
    /\ slResponse.body[1].totalTested = 3

\* C2 as stated: when every probe of every candidate fails, workingCount is 0
\* and workingUrl is still defined: the first candidate, direct route.
C2_AllFailedFirstCandidateChosen ==
    TestedAnswer /\ ReachableEntries(slResponse.body[1].allUrls) = {} =>
        LET body == slResponse.body[1] IN
        /\ body.workingCount = 0
        /\ body.workingUrl # None
        /\ body.workingUrl[1].originalUrl = slCandidates[1].originalUrl
        /\ body.workingUrl[1].url = slCandidates[1].originalUrl
        /\ ~body.workingUrl[1].usedProxy

\* C2 amended: when every probe of every candidate fails, workingCount is 0
\* and workingUrl is null; the first candidate in priority order is the first
\* entry of allUrls.
C2_AllFailedNothingChosen ==
    TestedAnswer /\ ReachableEntries(slResponse.body[1].allUrls) = {} =>
        LET body == slResponse.body[1] IN
        /\ body.workingCount = 0
        /\ body.workingUrl = None
        /\ body.allUrls[1].originalUrl = slCandidates[1].originalUrl

\* A tv request whose four candidates all failed the direct and the proxied
\* probe
C2_Witness ==
    /\ TestedAnswer
    /\ rqMediaType = "tv"
    /\ Len(slResponse.body[1].allUrls) = 4
    /\ \A i \in 1..4 : /\ slResponse.body[1].allUrls[i].proxy # None
                       /\ ~slResponse.body[1].allUrls[i].proxy[1].ok
    /\ slResponse.body[1].workingUrl = None
    /\ slResponse.body[1].workingCount = 0

----------------------------------------------------------------------------
(* Claims about the proxy *)

\* The target a request carries: the JSON target of a POST when it has one,
\* else the target query parameter
RequestTarget ==
    IF pxMethod = "POST" /\ ~Falsy(pxBodyTarget) THEN pxBodyTarget ELSE pxQueryTarget

\* The request enters the proxy: by path, or for a GET on another path by
\* the presence of the target parameter
EntersProxy ==
    \/ pxPath = "/api/proxy"
    \/ pxMethod = "GET" /\ pxPath # "/api/check-embed" /\ ~Falsy(pxQueryTarget)

\* host is an allowlist entry or a subdomain of one
OnAllowlist(host) ==
    /\ ~Falsy(host)
    /\ \E k \in DOMAIN ALLOWED_HOSTS :
          host = ALLOWED_HOSTS[k] \/ EndsWith(host, <<".">> \o ALLOWED_HOSTS[k])

\* C3: on every entry path into the proxy a target whose host is not on the
\* allowlist is answered with 403, and fetch is only ever called with a
\* target whose host is on the allowlist.
C3_NonAllowlistedNeverFetched ==
    LET host == ClaimHost(RequestTarget) IN
    /\ pxFetched # <<>> =>
          /\ EntersProxy
          /\ OnAllowlist(host)
          /\ \A i \in DOMAIN pxFetched : pxFetched[i] = RequestTarget
    /\ pxPc = "done" /\ EntersProxy /\ ~Falsy(host) /\ ~OnAllowlist(host) =>
          /\ pxResponse.status = 403
          /\ pxFetched = <<>>

\* A POST whose JSON target has an allowed name only as a suffix without a
\* dot, while its query target is allowlisted, was answered 403 without a
\* fetch.
C3_Witness ==
    /\ pxPc = "done"
    /\ pxMethod = "POST" /\ pxPath = "/api/proxy"
    /\ pxBodyTarget = <<"https://", "evil", "vidsrc", ".", "to">>
    /\ pxQueryTarget = <<"https://", "vidsrc", ".", "to", "/", "embed">>
    /\ pxResponse.status = 403
    /\ pxFetched = <<>>

----------------------------------------------------------------------------
(* Claims about the client failover controller *)

\* The ranked list the resolution endpoint returned
Ranked == IF checkResults = None THEN <<>> ELSE checkResults[1].allUrls

\* The URL a ranked entry is rendered with, as determined at selection time
CandidateUrl(entry) == IF Falsy(entry.proxied) THEN entry.originalUrl ELSE entry.proxied

\* The ranked entries not yet tried once the URLs of tried have failed
Untried(tried) == {i \in DOMAIN Ranked : CandidateUrl(Ranked[i]) \notin tried}

\* C6: on a render-time failure the controller advances to an untried entry
\* of the ranked list that is flagged reachable, and when there is none to an
\* untried entry that is not flagged reachable.
C6_FailoverPrefersUntriedReachable ==
    [][IframeError =>
          LET untried == Untried(failed \cup {embedUrl})
              reachable == untried \cap ReachableEntries(Ranked)
          IN  IF reachable # {}
              THEN embedUrl' \in {CandidateUrl(Ranked[i]) : i \in reachable}
              ELSE untried # {} =>
                      embedUrl' \in {CandidateUrl(Ranked[i]) : i \in untried}]_vars

\* C7: the terminal error is shown only after every candidate the resolution
\* endpoint returned has been rendered and has failed.
C7_TerminalErrorOnlyAfterAllTried ==
    error = AllFailed =>
        \A i \in DOMAIN Ranked : CandidateUrl(Ranked[i]) \in failed

\* C8: the controller never renders again a candidate it has already tried.
C8_NoCandidateRenderedTwice ==
    \A i, j \in DOMAIN rendered : i # j => rendered[i] # rendered[j]

\* C9 as stated: handling a render-time failure issues no reachability probe.
C9_NoProbeDuringFailover == errProbes = 0

\* The retained list offers an entry to switch to: one after the current
\* index, or another one flagged reachable
ListOffersEntry ==
    \/ currentSourceIndex + 1 < Len(workingSources)
    \/ \E i \in DOMAIN workingSources :
          i - 1 # currentSourceIndex /\ EntryOk(workingSources[i])

\* C9 amended: handling a render-time failure issues no probe while the
\* retained list offers an entry to switch to, and the switch uses the URL
\* recorded for that entry at selection time; a probe is issued only when the
\* list offers none.
C9_ProbeOnlyWhenListExhausted ==
    [][IframeError =>
          /\ ListOffersEntry =>
                /\ errProbes' = errProbes
                /\ \E i \in DOMAIN workingSources :
                      /\ currentSourceIndex' = i - 1
                      /\ embedUrl' = CandidateUrl(workingSources[i])
          /\ errProbes' # errProbes => ~ListOffersEntry]_vars

\* Every probe failed at the server: the three candidates were rendered one
\* after the other without a probe, and the failure of the third started the
\* client-side test of a traditional source.
C9_Witness ==
    /\ Len(Ranked) = 3 /\ ReachableEntries(Ranked) = {}
    /\ Len(rendered) = 3
    /\ currentSourceIndex = 2
    /\ plProviders = 4
    /\ errPc = "test" /\ errProbes = 1

\* C10: after a close, embedUrl, currentSourceIndex and error are not changed.
C10_NoTransitionAfterClose ==
    [][closed => UNCHANGED <<embedUrl, currentSourceIndex, error>>]_vars

----------------------------------------------------------------------------
(* Claims about the retrying fetch of the proxy *)

\* The failures the claim calls transient: timeout, connection reset or
\* refused, DNS failure
TransientFailure(msg) ==
    msg \in {"This operation was aborted", "connect ETIMEDOUT", "read ECONNRESET",
             "connect ECONNREFUSED", "getaddrinfo ENOTFOUND"}

\* The attempts the fetch made so far
Attempts == Len(pxFetched)

RetryDiscipline ==
    /\ Attempts <= ProxyRetries + 1
    /\ \A i \in DOMAIN pxErrors :
          /\ i < Attempts => TransientFailure(pxErrors[i])
          /\ ~TransientFailure(pxErrors[i]) =>
                Attempts = i /\ pxOutcome = "thrown" /\ pxPc = "done"
    /\ pxOutcome = "response" => Attempts = Len(pxErrors) + 1 /\ pxPc = "done"
    /\ pxOutcome = "thrown" =>
          /\ Attempts = Len(pxErrors) /\ pxPc = "done"
          /\ pxResponse.status = 502
    /\ pxPc = "done" /\ Attempts > 0 => pxOutcome \in {"response", "thrown"}
    /\ pxPc \in {"fetch", "sleep"} => pxOutcome = "" /\ Attempts > 0

\* C11: the fetch makes at most retries + 1 attempts; an attempt after the
\* first follows a transient failure only; a non-transient failure ends it at
\* once with a thrown error; a response, 2xx or not, ends it without retry;
\* and the call ends, with a response or a thrown error.
C11_BoundedRetryOnTransientOnly ==
    /\ [](RetryDiscipline = TRUE)
    /\ <>(pxPc = "done")

\* Three attempts timed out: the third failure is thrown, no fourth attempt.
C11_Witness ==
    /\ pxPc = "done" /\ pxOutcome = "thrown"
    /\ Len(pxFetched) = 3
    /\ pxErrors = <<"This operation was aborted", "read ECONNRESET", "getaddrinfo ENOTFOUND">>

\* The wait the claim gives before attempt k + 1
ClaimedWait(k) ==
    CASE k = 1 -> 300
      [] k = 2 -> 600
      [] k = 3 -> 1200
      [] OTHER -> 2400

\* C12: the wait before attempt k + 1 is 300 * 2^(k-1) ms; a wait lies
\* between two attempts on the same target, and none follows the last attempt.
C12_BackoffDoublesBetweenAttempts ==
    /\ \A k \in DOMAIN pxSleeps : pxSleeps[k] = ClaimedWait(k)
    /\ \A i \in DOMAIN pxFetched : pxFetched[i] = pxTarget
    /\ Len(pxSleeps) = IF pxPc = "sleep" THEN Len(pxFetched)
                       ELSE IF pxFetched = <<>> THEN 0 ELSE Len(pxFetched) - 1
    /\ pxPc = "sleep" => Len(pxFetched) <= ProxyRetries

\* The call ended after three attempts with the waits 300 and 600 between them
C12_Witness ==
    /\ pxPc = "done"
    /\ Len(pxFetched) = 3
    /\ pxSleeps = <<300, 600>>

\* The request outcome the status is said to depend on: the target is missing
\* or no host can be parsed out of it; else its host is off the allowlist;
\* else the fetch threw after its retries or the upstream answered non-2xx.
TargetUnusable == Falsy(RequestTarget) \/ Falsy(ClaimHost(RequestTarget))
HostRefused == ~TargetUnusable /\ ~OnAllowlist(ClaimHost(RequestTarget))
UpstreamFailed == pxOutcome = "thrown" \/ pxUpstream = "non2xx"

\* The 400 and 403 answers are given before any fetch, and a 200 carries the
\* body of the upstream response, rewritten for html and forwarded otherwise
ChecksPrecedeFetch ==
    /\ pxResponse.status \in {400, 403} => pxFetched = <<>>
    /\ pxResponse.status \in 200..299 =>
          pxResponse.kind = pxUpstream /\ pxBodyRead = "ok"

C14_EveryResponseCarriesMarker ==
    pxPc = "done" /\ EntersProxy => pxResponse.marker

-----------------------------------------------------------------------------
(* Claims about the resolution handlers *)

\* A 200 answer to a request, GET or POST, that switched testing off
UntestedAnswer == slPc = "done" /\ slResponse.status = 200 /\ ~rqTestUrls

\* C15: with testing disabled no probe is issued for any candidate, every
\* diagnostics entry is untested and has no probe result, and the chosen
\* candidate is the first of the list, with the direct route.
C15_UntestedFirstCandidateDirect ==
    /\ ~rqTestUrls => slProbes = <<>> /\ slPc \notin {"direct", "proxy"}
    /\ UntestedAnswer =>
          LET body == slResponse.body[1] IN
          /\ Len(body.allUrls) = Len(slCandidates)
          /\ \A i \in DOMAIN body.allUrls :
                /\ body.allUrls[i].originalUrl = slCandidates[i].originalUrl
                /\ ~body.allUrls[i].tested
                /\ body.allUrls[i].direct = None
                /\ body.allUrls[i].proxy = None
          /\ body.workingUrl # None
          /\ body.workingUrl[1].provider = "VidLink"
          /\ body.workingUrl[1].originalUrl = slCandidates[1].originalUrl
          /\ body.workingUrl[1].url = slCandidates[1].originalUrl
          /\ ~body.workingUrl[1].usedProxy

\* A GET for a tv episode with test=false was answered with its four
\* candidates, none probed
C15_Witness ==
    /\ UntestedAnswer /\ rqMethod = "GET" /\ rqMediaType = "tv"
    /\ Len(slResponse.body[1].allUrls) = 4
    /\ slProbes = <<>>

\* raw is the text of a positive finite number
PositiveFinite(raw) == raw \in {"1", "2", "550"}

\* The request is malformed: its mediaType is neither movie nor tv, its id is
\* not a positive finite number, or it is tv and its season or its episode is
\* missing or not a positive number
MalformedRequest ==
    \/ rqMediaType \notin {"movie", "tv"}
    \/ ~PositiveFinite(rqTmdbId)
    \/ rqMediaType = "tv" /\ (~PositiveFinite(rqSeason) \/ ~PositiveFinite(rqEpisode))

\* C16: the GET and the POST handler answer a malformed request with 400, and
\* no probe is issued for it.
C16_MalformedRequestRejected ==
    slPc # "start" /\ MalformedRequest =>
        /\ slPc = "done"
        /\ slResponse.status = 400
        /\ slProbes = <<>>

-----------------------------------------------------------------------------
(* Claims about the candidate generator *)

\* x is a positive finite number, as a value passed to the generator
Positive(x) == x \notin {"0", "NaN", "undefined"}

\* The arguments form a valid media request: movie or tv with a positive id,
\* and for tv a positive season and episode
ValidArgs(a) ==
    /\ a[1] \in {"movie", "tv"}
    /\ Positive(a[2])
    /\ a[1] = "tv" => Positive(a[3]) /\ Positive(a[4])

\* The cross-type fallback applies: the request is tv, or it is a movie that
\* comes with a season and an episode
FallbackApplies(a) == a[1] = "tv" \/ (Positive(a[3]) /\ Positive(a[4]))

\* The positions of the native and of the cross-type candidates of a list
Natives(list, mediaType) == {i \in DOMAIN list : list[i].type = mediaType}
Fallbacks(list, mediaType) == {i \in DOMAIN list : list[i].type # mediaType}

\* C17: for valid arguments the generator returns at least one native
\* candidate and at most one cross-type fallback, exactly one when the
\* fallback applies; the list is determined by the arguments.
C17_NativesAndAtMostOneFallback ==
    slArgs # None /\ ValidArgs(slArgs[1]) =>
        LET a == slArgs[1] IN
        /\ Cardinality(Natives(slCandidates, a[1])) >= 1
        /\ Cardinality(Fallbacks(slCandidates, a[1])) <= 1
        /\ FallbackApplies(a) => Cardinality(Fallbacks(slCandidates, a[1])) = 1
        /\ slCandidates = buildAllEmbedCandidates(a[1], a[2], a[3], a[4])

\* A movie that came with season 1 and episode 2 got three native candidates
\* and one fallback
C17_Witness ==
    /\ slArgs = Some(<<"movie", "550", "1", "2">>)
    /\ Cardinality(Natives(slCandidates, "movie")) = 3
    /\ Cardinality(Fallbacks(slCandidates, "movie")) = 1

\* The request was accepted and its candidate list generated
Generated == slCandidates # <<>>

\* The last entry of the list is its only cross-type candidate, of the given
\* shape, and every native candidate comes before it
EndsWithOneFallback(list, mediaType, shape) ==
    /\ Len(list) >= 2
    /\ list[Len(list)].type = shape
    /\ Fallbacks(list, mediaType) = {Len(list)}
    /\ \A i \in Natives(list, mediaType) : i < Len(list)

\* C18: a movie request that carries a season and an episode gets a list that
\* ends with one tv-shaped fallback, a tv request a list that ends with one
\* movie-shaped fallback; the native candidates precede the fallback.
C18_FallbackLastAfterNatives ==
    Generated /\ ~MalformedRequest =>
        /\ rqMediaType = "movie" /\ PositiveFinite(rqSeason) /\ PositiveFinite(rqEpisode) =>
              EndsWithOneFallback(slCandidates, "movie", "tv-fallback")
        /\ rqMediaType = "tv" =>
              EndsWithOneFallback(slCandidates, "tv", "movie-fallback")

-----------------------------------------------------------------------------
(* Claims about probe failures and the chosen route *)

\* The proxy URL of a candidate: the proxy path on the origin of the request
ProxyUrlOf(url) == SelfOrigin \o <<ProxyPrefix>> \o encodeURIComponent(url)

\* The candidates the loop of the handler goes through: all of them for a
\* POST, the first three for a GET
LoopLength == IF rqMethod = "GET" /\ Len(slCandidates) > 3 THEN 3 ELSE Len(slCandidates)

\* A failed probe as a diagnostics entry shows it: an HTTP error for a
\* non-2xx response, an error for a network failure or a timeout
FailureShown(outcome, shown) ==
    /\ shown # None
    /\ ~shown[1].ok
    /\ shown[1].kind = IF outcome = "non2xx" THEN "http" ELSE "error"

\* Probe k failed and entry i of the diagnostics is the candidate it belongs
\* to: the entry shows the failure, under direct or under proxy
FailureRecorded(allUrls, k, i) ==
    /\ slProbes[k] = allUrls[i].originalUrl => FailureShown(slOutcomes[k], allUrls[i].direct)
    /\ slProbes[k] = ProxyUrlOf(allUrls[i].originalUrl) =>
          FailureShown(slOutcomes[k], allUrls[i].proxy)

\* C19: a failed probe (network error, timeout, non-2xx) is recorded in the
\* entry of its candidate and does not end the selection: the remaining
\* candidates are probed and the answer is a success, never a 500.
C19_ProbeFailureAbsorbed ==
    /\ slResponse.status # 500
    /\ slPc = "done" /\ Generated /\ rqTestUrls =>
          LET body == slResponse.body[1] IN
          /\ slResponse.status = 200 /\ body.success
          /\ Len(body.allUrls) = LoopLength
          /\ \A i \in 1..LoopLength :
                /\ body.allUrls[i].originalUrl = slCandidates[i].originalUrl
                /\ slCandidates[i].originalUrl \in Range(slProbes)
          /\ Len(slOutcomes) = Len(slProbes)
          /\ \A k \in DOMAIN slOutcomes :
                slOutcomes[k] # "2xx" =>
                    /\ \E i \in DOMAIN body.allUrls :
                          slProbes[k] \in {body.allUrls[i].originalUrl,
                                           ProxyUrlOf(body.allUrls[i].originalUrl)}
                    /\ \A i \in DOMAIN body.allUrls : FailureRecorded(body.allUrls, k, i)

\* The direct probe of the first candidate met a network error and its
\* proxied probe a non-2xx response; all four candidates of the tv request
\* were probed and the answer is a success.
C19_Witness ==
    /\ slPc = "done" /\ rqMethod = "POST" /\ rqMediaType = "tv" /\ rqTestUrls
    /\ Len(slOutcomes) >= 2 /\ slOutcomes[1] = "throws" /\ slOutcomes[2] = "non2xx"
    /\ slResponse.status = 200
    /\ Len(slResponse.body[1].allUrls) = 4
    /\ slResponse.body[1].workingUrl # None

\* A 200 answer, of either handler, to a request that asked for testing
ProbedAnswer == slPc = "done" /\ slResponse.status = 200 /\ rqTestUrls

\* The probes of entry e: the direct one succeeded; the proxied one did
DirectOk(e) == e.direct # None /\ e.direct[1].ok
ProxiedOk(e) == e.proxy # None /\ e.proxy[1].ok

\* C20: with testing enabled, a chosen candidate has a successful probe and
\* its route matches it: direct with the original URL exactly when its direct
\* probe succeeded, proxied with the proxy URL exactly when its direct probe
\* failed and its proxied probe succeeded.
C20_ChosenRouteMatchesProbe ==
    ProbedAnswer /\ slResponse.body[1].workingUrl # None =>
        LET body == slResponse.body[1]
            chosen == body.workingUrl[1]
            mine == {i \in DOMAIN body.allUrls :
                        body.allUrls[i].originalUrl = chosen.originalUrl}
        IN  /\ ReachableEntries(body.allUrls) # {}
            /\ Cardinality(mine) = 1
            /\ \A i \in mine :
                  LET e == body.allUrls[i] IN
                  /\ DirectOk(e) \/ ProxiedOk(e)
                  /\ (~chosen.usedProxy /\ chosen.url = chosen.originalUrl) <=> DirectOk(e)
                  /\ (chosen.usedProxy /\ chosen.url = ProxyUrlOf(chosen.originalUrl))
                        <=> (~DirectOk(e) /\ ProxiedOk(e))

\* A GET whose first candidate failed both probes and whose second answered
\* through the proxy only: the second is chosen, with its proxy URL
C20_Witness ==
    /\ ProbedAnswer /\ rqMethod = "GET"
    /\ slOutcomes = <<"throws", "non2xx", "non2xx", "2xx", "2xx">>
    /\ slResponse.body[1].workingUrl # None
    /\ slResponse.body[1].workingUrl[1].provider = "VidSrc"
    /\ slResponse.body[1].workingUrl[1].usedProxy

-----------------------------------------------------------------------------
(* Claims about cancellation *)

\* C21: once the caller of a request is cancelled, no further probe, upstream
\* fetch or backoff wait is started for that request.
C21_NothingStartedAfterCancel ==
    [][callerGone => /\ slProbes' = slProbes
                     /\ pxFetched' = pxFetched
                     /\ pxSleeps' = pxSleeps]_vars

-----------------------------------------------------------------------------
(* Claims about buildEmbedUrl *)

\* The path of an absolute URL: from the first "/" after the host up to the
\* query
PathOf(url) ==
    LET rest == Tail(url)
        from == FirstIn(rest, {"/"})
        to == FirstIn(rest, {"?"})
    IN  IF from = 0 THEN <<>>
        ELSE SubSeq(rest, from, IF to = 0 THEN Len(rest) ELSE to - 1)

\* The origin of a provider value: its scheme and host
OriginOf(url) ==
    LET from == FirstIn(Tail(url), {"/"}) IN
    IF from = 0 THEN url ELSE SubSeq(url, 1, from)

\* The template provider has the canonical shape for the media type asked for
CanonicalTemplate ==
    PathOf(emTemplate) =
        IF emMediaType = "movie" THEN <<"/", "movie", "/", "${id}">>
        ELSE <<"/", "tv", "/", "${id}", "/", "${season}", "/", "${episode}">>

\* C22: for a canonical template provider and a literal-base provider of the
\* same origin buildEmbedUrl gives URLs with the same path, /movie/{id} for a
\* movie and /tv/{id}/{season}/{episode} for tv, also when season or episode
\* is not supplied.
C22_TemplateAndBaseSamePath ==
    emDone /\ CanonicalTemplate /\ OriginOf(emTemplate) = OriginOf(emBase) =>
        /\ PathOf(emTemplateUrl) = PathOf(emBaseUrl)
        /\ emMediaType = "movie" => PathOf(emBaseUrl) = <<"/", "movie", "/", emTmdbId>>
        /\ emMediaType = "tv" /\ Truthy(emSeason) /\ Truthy(emEpisode) =>
              PathOf(emBaseUrl) = <<"/", "tv", "/", emTmdbId, "/", emSeason, "/", emEpisode>>

-----------------------------------------------------------------------------
(* Claims about the order of the probes *)

\* The candidate probe k belongs to, and whether probe k is its direct probe
ProbedCandidate(k) ==
    CHOOSE i \in DOMAIN slCandidates :
        slProbes[k] \in {slCandidates[i].originalUrl, ProxyUrlOf(slCandidates[i].originalUrl)}
IsDirectProbe(k) == slProbes[k] = slCandidates[ProbedCandidate(k)].originalUrl

\* Probe k of a candidate is followed by the proxied probe of the same
\* candidate exactly when it is the direct probe, it failed and the host is
\* on the allowlist; else by the direct probe of the next candidate
FollowsInOrder(k) ==
    LET i == ProbedCandidate(k - 1)
        url == slCandidates[i].originalUrl
    IN  IF /\ IsDirectProbe(k - 1)
           /\ slOutcomes[k - 1] # "2xx"
           /\ OnAllowlist(ClaimHost(url))
        THEN slProbes[k] = ProxyUrlOf(url)
        ELSE /\ i < Len(slCandidates)
             /\ slProbes[k] = slCandidates[i + 1].originalUrl

\* C23: probes are issued one at a time in the order of the candidates: the
\* direct probe of a candidate first, its proxied probe only after a failed
\* direct probe of an allowlisted host, the next candidate only after that;
\* the diagnostics list has the order of the candidates.
C23_ProbesSequentialInPriorityOrder ==
    /\ Len(slOutcomes) <= Len(slProbes)
    /\ Len(slProbes) <= Len(slOutcomes) + 1
    /\ slProbes # <<>> => slProbes[1] = slCandidates[1].originalUrl
    /\ \A k \in 2..Len(slProbes) : FollowsInOrder(k)
    /\ \A i \in DOMAIN slAllResults :
          slAllResults[i].originalUrl = slCandidates[i].originalUrl
    /\ slPc = "done" /\ slResponse.status = 200 =>
          \A i \in DOMAIN slResponse.body[1].allUrls :
             slResponse.body[1].allUrls[i].originalUrl = slCandidates[i].originalUrl

\* A tv POST: the first candidate answered directly, the second through the
\* proxy, the third not at all, the fourth directly: six probes in order
C23_Witness ==
    /\ slPc = "done" /\ rqMethod = "POST" /\ rqMediaType = "tv"
    /\ slOutcomes = <<"2xx", "throws", "2xx", "non2xx", "non2xx", "2xx">>
    /\ Len(slProbes) = 6
    /\ IsDirectProbe(1) /\ IsDirectProbe(2) /\ ~IsDirectProbe(3)
    /\ IsDirectProbe(4) /\ ~IsDirectProbe(5) /\ IsDirectProbe(6)

\* C24: a probe whose fetch was rejected by a transient error (the timeout
\* that aborts it is one) is retried: by the end of the selection the same
\* URL was probed again, and only then is the route shown as unreachable.
C24_TransientProbeFailureRetried ==
    slPc = "done" /\ slResponse.status = 200 =>
        \A k \in DOMAIN slOutcomes :
            slOutcomes[k] = "throws" =>
                \E j \in DOMAIN slProbes : j > k /\ slProbes[j] = slProbes[k]

-----------------------------------------------------------------------------
(* Claims about the headers of the proxy *)

\* name is one of the five headers, in any letter case
IsStripped(name) ==
    name \in {"content-security-policy", "Content-Security-Policy",
              "x-frame-options", "X-Frame-Options",
              "set-cookie", "Set-Cookie", "SET-COOKIE",
              "transfer-encoding", "Transfer-Encoding",
              "connection", "Connection"}

\* C25: no successful answer of the proxy, html or not, relays the upstream
\* headers Content-Security-Policy, X-Frame-Options, Set-Cookie,
\* Transfer-Encoding or Connection, however the upstream spells them.
C25_StrippedHeadersNeverRelayed ==
    pxPc = "done" /\ pxResponse.status \in 200..299 =>
        \A name \in pxResponse.headers : ~IsStripped(name)

\* An upstream sent all five headers with a binary body; the answer carries
\* its cache-control header and none of the five
C25_Witness ==
    /\ pxPc = "done" /\ pxResponse.status = 206 /\ pxResponse.kind = "binary"
    /\ pxUpstreamHeaders = UpstreamHeaderNames
    /\ pxResponse.headers = {"content-type", "cache-control", "x-proxy-by"}

-----------------------------------------------------------------------------
(* Claims about the proxied probe *)

\* The upstream fetch of the proxy ended with a 2xx response
UpstreamOk == pxOutcome = "response" /\ pxUpstreamStatus \in 200..299

\* C26: a proxied probe is recorded as reachable only if the upstream fetch
\* of the proxy, made for the original URL of the candidate, ended with a 2xx
\* response; when that fetch failed after its retries or got a non-2xx
\* response, the probe is recorded as unreachable.
C26_ProxiedProbeReflectsUpstream ==
    pbResult # None =>
        /\ pbResult[1].ok =>
              /\ UpstreamOk
              /\ pxFetched # <<>>
              /\ \A i \in DOMAIN pxFetched : pxFetched[i] = pbUrl
        /\ pxPc = "done" /\ ~UpstreamOk => ~pbResult[1].ok

\* The upstream answered 206 on the second attempt and the probe of the tv
\* candidate of 2Embed is recorded as reachable
C26_Witness ==
    /\ pbResult = Some(ProbeOk)
    /\ pbUrl = <<"https://", "2embed", ".", "cc", "/", "embed", "/", "tv", "?", "tmdb=",
                 "1399", "&season=", "1", "&episode=", "2">>
    /\ Len(pxFetched) = 2 /\ pxUpstreamStatus = 206

-----------------------------------------------------------------------------
(* Claims about the GET handler of the resolution endpoint *)

\* The candidates past the third, which the GET handler leaves out
LeftOut == {i \in DOMAIN slCandidates : i > 3}

\* C27: with testing enabled the GET handler probes the first min(3, n)
\* candidates only and chooses the first reachable one of them; a candidate at
\* index 3 or later (counting from 0) is never probed, is not in the
\* diagnostics and is never chosen, even when it alone could be reached.
C27_GetProbesFirstThreeOnly ==
    rqMethod = "GET" /\ rqTestUrls =>
        /\ \A k \in DOMAIN slProbes : \A i \in LeftOut :
              /\ slProbes[k] # slCandidates[i].originalUrl
              /\ slProbes[k] # ProxyUrlOf(slCandidates[i].originalUrl)
        /\ ProbedAnswer =>
              LET body == slResponse.body[1]
                  n == IF Len(slCandidates) > 3 THEN 3 ELSE Len(slCandidates)
                  live == ReachableEntries(body.allUrls)
              IN  /\ Len(body.allUrls) = n
                  /\ \A i \in 1..n :
                        body.allUrls[i].originalUrl = slCandidates[i].originalUrl
                  /\ \A i \in 1..n : \E k \in DOMAIN slProbes :
                        slProbes[k] = slCandidates[i].originalUrl
                  /\ IF live = {} THEN body.workingUrl = None
                     ELSE /\ body.workingUrl # None
                          /\ body.workingUrl[1].originalUrl =
                                 slCandidates[Least(live)].originalUrl
                  /\ body.workingUrl # None =>
                        \A i \in LeftOut :
                           body.workingUrl[1].originalUrl # slCandidates[i].originalUrl

\* A tv GET with four candidates: the three probed ones all failed on both
\* routes, the answer has three entries and no chosen candidate
C27_Witness ==
    /\ ProbedAnswer /\ rqMethod = "GET" /\ rqMediaType = "tv"
    /\ Len(slCandidates) = 4
    /\ Len(slProbes) = 6
    /\ Len(slResponse.body[1].allUrls) = 3
    /\ slResponse.body[1].workingUrl = None

-----------------------------------------------------------------------------
(* Claims about the index of the player *)

\* C28: after a completed load, whenever the player shows an embed URL while
\* workingSources is not empty, currentSourceIndex is an index of
\* workingSources and embedUrl is the proxied-or-original URL of that entry.
C28_IndexPointsIntoWorkingSources ==
    loadPc = "done" /\ IframeShown /\ workingSources # <<>> =>
        /\ currentSourceIndex \in 0..(Len(workingSources) - 1)
        /\ embedUrl = UrlOf(workingSources[currentSourceIndex + 1])

-----------------------------------------------------------------------------
(* Claims about a superseded load *)

\* C29: once the props changed or the player unmounted during a load, the
\* superseded load writes none of embedUrl, currentSourceIndex,
\* workingSources, checkResults, loading and error, at whichever await it was
\* suspended.
C29_SupersededLoadWritesNothing ==
    [][/\ supWrites' \cap {"embedUrl", "currentSourceIndex", "workingSources",
                           "checkResults", "loading", "error"} = {}
       /\ ~mounted => UNCHANGED <<embedUrl, currentSourceIndex, workingSources,
                                  checkResults, loading, error>>]_vars

-----------------------------------------------------------------------------
(* Claims about the counters of the POST answer *)

\* The candidates one of whose probes, direct or proxied, got a 2xx response
ProbedReachable ==
    {i \in DOMAIN slCandidates :
        \E k \in DOMAIN slOutcomes :
            /\ slOutcomes[k] = "2xx"
            /\ slProbes[k] \in {slCandidates[i].originalUrl,
                                ProxyUrlOf(slCandidates[i].originalUrl)}}

\* C30: in every POST answer with testing enabled, workingCount is the number
\* of candidates with a successful direct or proxied probe, it lies between 0
\* and totalTested, totalTested is the number of candidates, and workingUrl
\* is non-null exactly when workingCount is positive.
C30_CountersMatchProbes ==
    TestedAnswer =>
        LET body == slResponse.body[1] IN
        /\ body.workingCount = Cardinality(ProbedReachable)
        /\ body.workingCount = Cardinality(ReachableEntries(body.allUrls))
        /\ body.totalTested = Len(slCandidates)
        /\ 0 <= body.workingCount /\ body.workingCount <= body.totalTested
        /\ (body.workingUrl # None) <=> (body.workingCount > 0)

\* A tv POST with four candidates: the second answered through the proxy
\* only, the fourth directly, the others not at all
C30_Witness ==
    /\ TestedAnswer /\ rqMediaType = "tv"
    /\ slOutcomes = <<"throws", "non2xx", "non2xx", "2xx", "non2xx", "throws", "2xx">>
    /\ slResponse.body[1].workingCount = 2
    /\ slResponse.body[1].totalTested = 4
    /\ slResponse.body[1].workingUrl # None

====
